---- MODULE Spec2Model ----
(***************************************************************************)
(* Model of node-sqlite-pool: the Database connection wrapper with its     *)
(* managed-transaction guard (Database.js) and the pool facade that        *)
(* acquires a connection, delegates to it and releases it (Sqlite.js).     *)
(* The driver (sqlite3) and the pool primitive (generic-pool) are the      *)
(* environment: a driver call is recorded in the handle's log and its      *)
(* callback later reports success or failure.                              *)
(* Spec runs the pool-level operations; SpecDb runs what a caller holding   *)
(* one connection does with it (statements and managed transactions).      *)
(***************************************************************************)
EXTENDS Integers, Sequences, FiniteSets, TLC

\* ---- bounds ----
PoolMax == 2        \* configured pool maximum (connections 1..PoolMax)
NumTasks == 1       \* pool-level operations issued by callers
MaxTrx == 2         \* transaction-proxy Database objects ever constructed
MaxCalls == 2       \* calls a function holding a connection makes on it
MaxMigId == 2       \* migration ids, in files and in the migrations table
MaxArgs == 2        \* values a caller passes after the SQL text
MaxRows == 2        \* rows the driver delivers to one each() call
MaxYields == 3      \* awaitables a procedure yields to the async runner
MaxExt == 2         \* extensions in the loadExtensions option

PoolMin == 1
Null == 0

Tasks == 1..NumTasks
Conns == 1..PoolMax
Proxies == (PoolMax + 1)..(PoolMax + MaxTrx)
Dbs == Conns \cup Proxies

SimpleKinds == {"exec", "run", "get", "all", "each"}
UseKinds == {"use", "useAsync"}
TrxKinds == {"transaction", "transactionAsync"}
Kinds == SimpleKinds \cup UseKinds \cup TrxKinds
ConnOps == {"run", "get", "all", "exec", "each", "prepare", "wait"}

ErrTrxActive == "A transaction is currently active for this connection"
ErrSavepoint == "Managed savepoints are not supported at this time"
\* the errors of generic-pool's acquire()
ErrDraining == "pool is draining and cannot accept work"
ErrTimeout == "ResourceRequest timed out"

VARIABLES
  delayRelease,   \* Sqlite.delayRelease
  pool,           \* pool[c]: "none" | "idle" | "borrowed" | "destroyed"
  immQ,           \* setImmediate callbacks queued by _release: connections
  acquired,       \* acquired[c]: number of times acquire() resolved with c
  released,       \* released[c]: number of _pool.release(c) calls
  poolErr,        \* a release of a connection the pool had not lent out
  driver,         \* driver[d]: the handle a Database object wraps
  parent,         \* Database._parent
  trx,            \* Database._trx (the guard)
  trxs,           \* per proxy: progress of the _trxWrap that built it
  nextTrx,        \* number of proxies constructed so far
  log,            \* log[h]: driver calls received by handle h, in order
  tasks,          \* pool-level operations
  ncalls,         \* connection-level calls made by bodies so far
  last,           \* the call made in the latest step, if it was one: plain
                  \* call or transaction, the object, the guard it met and
                  \* the error thrown
  draining,       \* the pool has been told to drain (by close())
  closeSt,        \* progress of Sqlite.close()
  closes,         \* closes[h]: number of close() calls handle h received
  mig,            \* the migration files, the migrations table as migrate()
                  \* found it, and the progress of migrate()
  opts,           \* Sqlite._sqlite_file and Sqlite._pool_opts
  stream,         \* an each() call on a Database or a Statement
  prep,           \* a call of prepareParams
  runner,         \* a procedure stepped by the async runner
  make            \* the connection factory: its options, the creation in
                  \* progress and the driver handles it opened

vars == <<delayRelease, pool, immQ, acquired, released, poolErr, driver,
          parent, trx, trxs, nextTrx, log, tasks, ncalls, last, draining,
          closeSt, closes, mig, opts, stream, prep, runner, make>>

poolVars == <<pool, immQ, acquired, released, poolErr>>
dbVars == <<driver, parent, trx, trxs, nextTrx, log>>
closeVars == <<draining, closeSt, closes>>
unitVars == <<opts, stream, prep, runner, make>>

NoOut == [st |-> "pending", v |-> "none"]
Resolved(v) == [st |-> "resolved", v |-> v]
Rejected(e) == [st |-> "rejected", v |-> e]

NoTrx == [pc |-> "unused", work |-> "none", err |-> "none", rb |-> "none",
          out |-> NoOut]
\* invoked: how often the function given to use()/useAsync() was called;
\* ret: what it returned when that was not a thenable
\* inner: the pool-level operation the task's function called and awaits
\* ("none" | "acquiring" | "acquired" | "running" | "resolved" | "rejected" |
\* "timeout"), innerConn: the connection that operation was handed
NoTask == [fn |-> "none", pc |-> "init", conn |-> Null, await |-> Null,
           invoked |-> 0, ret |-> "none", out |-> NoOut,
           inner |-> "none", innerConn |-> Null]
NoCall == [op |-> "none", d |-> Null, err |-> "none", guard |-> Null]
\* close() not called: pending counts its queued acquire() calls, closing
\* holds the connections they resolved with, failed counts the absorbed
\* rejections, idle and busy describe the pool at the time of the call
\* got: every connection its acquire() calls resolved with; pass1, pass2: the
\* connections handed to _pool.destroy before and after the polling loop;
\* created, queued: the connections ever created and the callers waiting in
\* acquire at the time of the call
NoClose == [pc |-> "none", pending |-> 0, closing |-> <<>>, failed |-> 0,
            idle |-> 0, busy |-> FALSE, got |-> {}, pass1 |-> {},
            pass2 |-> {}, created |-> 0, queued |-> 0]

\* migrate() not called
NoMig == [pc |-> "none"]
NoStream == [pc |-> "none"]
NoPrep == [pc |-> "none"]
NoRunner == [pc |-> "none"]
NoMake == [pc |-> "none"]

\* the special case of the constructor left out
PoolOptsAsGiven(filename, min, max) ==
  [file |-> IF filename = "undefined" THEN ":memory:" ELSE filename,
   min |-> min, max |-> max, asked |-> [min |-> min, max |-> max]]

\* Sqlite.constructor: filename defaults to ':memory:', and an anonymous or
\* in-memory database gets min = max = 1
PoolOpts(filename, min, max) ==
  LET file == IF filename = "undefined" THEN ":memory:" ELSE filename
  IN IF file = "" \/ file = ":memory:"
     THEN [file |-> file, min |-> 1, max |-> 1,
           asked |-> [min |-> min, max |-> max]]
     ELSE [file |-> file, min |-> min, max |-> max,
           asked |-> [min |-> min, max |-> max]]

\* the pool of a database file with the minimum and maximum of the model
FileOpts == PoolOpts("db.sqlite", PoolMin, PoolMax)

Init ==
  /\ delayRelease \in BOOLEAN
  /\ pool = [c \in Conns |-> "none"]
  /\ immQ = <<>>
  /\ acquired = [c \in Conns |-> 0]
  /\ released = [c \in Conns |-> 0]
  /\ poolErr = FALSE
  /\ driver = [d \in Dbs |-> IF d \in Conns THEN d ELSE Null]
  /\ parent = [d \in Dbs |-> Null]
  /\ trx = [d \in Dbs |-> Null]
  /\ trxs = [x \in Proxies |-> NoTrx]
  /\ nextTrx = 0
  /\ log = [c \in Conns |-> <<>>]
  /\ tasks = [t \in Tasks |-> NoTask]
  /\ ncalls = 0
  /\ last = NoCall
  /\ draining = FALSE
  /\ closeSt = NoClose
  /\ closes = [c \in Conns |-> 0]
  /\ opts = FileOpts
  /\ stream = NoStream
  /\ prep = NoPrep
  /\ runner = NoRunner
  /\ make = NoMake
  /\ mig = NoMig

\* ---- Database ----

\* fault: _trxCheck that forgets to look at the guard
TrxCheckNoGuard(d, par) ==
  IF par /\ parent[d] # Null THEN ErrSavepoint ELSE "ok"

\* fault: _trxCheck without the stricter check of a proxy
TrxCheckNoParent(d, par) ==
  IF trx[d] # Null THEN ErrTrxActive ELSE "ok"

\* Database._trxCheck: the error it throws, or "ok"
TrxCheck(d, par) ==
  IF trx[d] # Null THEN ErrTrxActive
  ELSE IF par /\ parent[d] # Null THEN ErrSavepoint
  ELSE "ok"

\* one driver call made through Database object d; of the call the log keeps
\* the SQL text ("SQL" for the caller's own statements, "" for wait)
Stmt(d, sql) == [sql |-> sql, via |-> d]
Issue(lg, d, sql) == [lg EXCEPT ![driver[d]] = Append(@, Stmt(d, sql))]

BeginSql(imm) == IF imm THEN "BEGIN IMMEDIATE" ELSE "BEGIN"

\* who may call a method of Database object d: the body of a use()/useAsync()
\* holding connection d, the work of a transaction running on d (the work is
\* invoked with the parent as its receiver), or the work given proxy d
Held(d) ==
  \/ /\ d \in Conns
     /\ \/ \E t \in Tasks : tasks[t].pc = "body" /\ tasks[t].conn = d
        \/ \E x \in Proxies : trxs[x].pc = "work" /\ parent[x] = d
  \/ d \in Proxies /\ trxs[d].pc = "work"

\* fault: the methods reach the driver without calling _trxCheck
CallCheckNoGuard(d, op, hasCb) ==
  IF op = "each" /\ ~hasCb THEN "Callback argument is required" ELSE "ok"

\* what Database.run/get/all/exec/each/prepare/wait throws before reaching
\* the driver, or "ok"
CallCheck(d, op, hasCb) ==
  IF TrxCheck(d, FALSE) # "ok" THEN TrxCheck(d, FALSE)
  ELSE IF op = "each" /\ ~hasCb THEN "Callback argument is required"
  ELSE "ok"

SqlOf(op) == IF op = "wait" THEN "" ELSE "SQL"

\* Database.run/get/all/exec/each/prepare/wait called by a body or a work
ConnCall(d, op, hasCb) ==
  /\ Held(d)
  /\ ncalls < MaxCalls
  /\ op = "each" \/ hasCb
  /\ ncalls' = ncalls + 1
  /\ LET chk == CallCheck(d, op, hasCb) IN
       /\ last' = [op |-> "call", d |-> d, err |-> chk, guard |-> trx[d]]
       /\ log' = IF chk = "ok" THEN Issue(log, d, SqlOf(op)) ELSE log
  /\ UNCHANGED <<delayRelease, unitVars, mig, closeVars, poolVars, driver, parent, trx, trxs, nextTrx,
                 tasks>>

\* the proxy the next _trxWrap constructs
NewProxy == PoolMax + nextTrx + 1

\* fault: _trxWrap without its entry check
TrxWrapNoCheck(d, imm, isAsync) ==
  LET x == NewProxy
  IN /\ nextTrx' = nextTrx + 1
     /\ driver' = [driver EXCEPT ![x] = driver[d]]
     /\ parent' = [parent EXCEPT ![x] = d]
     /\ trx' = [trx EXCEPT ![d] = x]
     /\ log' = [log EXCEPT ![driver[d]] =
                   Append(@, Stmt(x, BeginSql(imm)))]
     /\ trxs' = [trxs EXCEPT ![x] = [NoTrx EXCEPT !.pc = "begin"]]
     /\ last' = [op |-> "transaction", d |-> d, err |-> "ok",
                 guard |-> trx[d]]

\* Database._trxWrap up to its first suspension: the entry check, the proxy,
\* the guard and the BEGIN sent through the proxy (isAsync only selects how
\* the work is invoked later: this._async(fn, trx) or fn.call(this, trx))
TrxWrap(d, imm, isAsync) ==
  LET chk == TrxCheck(d, TRUE)
      x == NewProxy
  IN IF chk # "ok"
     THEN /\ last' = [op |-> "transaction", d |-> d, err |-> chk,
                      guard |-> trx[d]]
          /\ UNCHANGED dbVars
     ELSE /\ nextTrx' = nextTrx + 1
          /\ driver' = [driver EXCEPT ![x] = driver[d]]
          /\ parent' = [parent EXCEPT ![x] = d]
          /\ trx' = [trx EXCEPT ![d] = x]
          /\ log' = [log EXCEPT ![driver[d]] =
                        Append(@, Stmt(x, BeginSql(imm)))]
          /\ trxs' = [trxs EXCEPT ![x] = [NoTrx EXCEPT !.pc = "begin"]]
          /\ last' = [op |-> "transaction", d |-> d, err |-> "ok",
                      guard |-> trx[d]]

\* Database.transaction/transactionAsync called by a body or a work
ConnTransaction(d, imm, isAsync) ==
  /\ Held(d)
  /\ ncalls < MaxCalls
  /\ TrxCheck(d, TRUE) = "ok" => nextTrx < MaxTrx
  /\ ncalls' = ncalls + 1
  /\ TrxWrap(d, imm, isAsync)
  /\ UNCHANGED <<delayRelease, unitVars, mig, closeVars, poolVars, tasks>>

\* the finally block of _trxWrap
Finally(g, x) == [g EXCEPT ![parent[x]] = Null]

\* fault: a catch block that throws the error again without a ROLLBACK
CatchNoRollback(x, e, w) ==
  /\ log' = log
  /\ trxs' = [trxs EXCEPT ![x].pc = "done", ![x].err = e, ![x].work = w,
                ![x].out = Rejected(e)]
  /\ trx' = Finally(trx, x)

\* the catch block of _trxWrap entered with error e: ROLLBACK through the proxy
Catch(x, e, w) ==
  IF TrxCheck(x, FALSE) = "ok"
  THEN /\ log' = Issue(log, x, "ROLLBACK")
       /\ trxs' = [trxs EXCEPT ![x].pc = "rollback", ![x].err = e,
                     ![x].work = w]
       /\ trx' = trx
  ELSE /\ log' = log
       /\ trxs' = [trxs EXCEPT ![x].pc = "done", ![x].err = e,
                     ![x].work = w,
                     ![x].out = Rejected(TrxCheck(x, FALSE))]
       /\ trx' = Finally(trx, x)

\* the callback of BEGIN: on success the work is invoked with the proxy, on
\* failure the error leaves the procedure before its try block is entered
BeginDone(x, ok) ==
  /\ trxs[x].pc = "begin"
  /\ IF ok
     THEN trxs' = [trxs EXCEPT ![x].pc = "work"]
     ELSE trxs' = [trxs EXCEPT ![x].pc = "done",
                     ![x].out = Rejected("BeginErr")]
  /\ UNCHANGED <<delayRelease, unitVars, mig, closeVars, poolVars, driver, parent, trx, nextTrx, log,
                 tasks, ncalls>>
  /\ last' = NoCall

\* fault: COMMIT is sent however the work ended
WorkDoneAlwaysCommit(x, how) ==
  /\ trxs[x].pc = "work"
  /\ log' = Issue(log, x, "COMMIT")
  /\ trxs' = [trxs EXCEPT ![x].pc = "commit",
                ![x].work = IF how = "resolved" THEN how ELSE "failed"]
  /\ UNCHANGED <<delayRelease, unitVars, mig, closeVars, poolVars, driver, parent, trx, nextTrx, tasks,
                 ncalls>>
  /\ last' = NoCall

\* the work settles: COMMIT on success, the catch block otherwise
WorkDone(x, how) ==
  /\ trxs[x].pc = "work"
  /\ IF how = "resolved"
     THEN IF TrxCheck(x, FALSE) = "ok"
          THEN /\ log' = Issue(log, x, "COMMIT")
               /\ trxs' = [trxs EXCEPT ![x].pc = "commit",
                             ![x].work = "resolved"]
               /\ trx' = trx
          ELSE /\ log' = log
               /\ trxs' = [trxs EXCEPT ![x].pc = "done",
                             ![x].work = "resolved",
                             ![x].err = TrxCheck(x, FALSE),
                             ![x].out = Rejected(TrxCheck(x, FALSE))]
               /\ trx' = Finally(trx, x)
     ELSE Catch(x, "WorkErr", "failed")
  /\ UNCHANGED <<delayRelease, unitVars, mig, closeVars, poolVars, driver, parent, nextTrx, tasks,
                 ncalls>>
  /\ last' = NoCall

\* fault: the work's result is not returned after COMMIT
CommitDoneNoResult(x, ok) ==
  /\ trxs[x].pc = "commit"
  /\ IF ok
     THEN /\ trxs' = [trxs EXCEPT ![x].pc = "done",
                        ![x].out = Resolved("undefined")]
          /\ trx' = Finally(trx, x)
          /\ log' = log
     ELSE Catch(x, "CommitErr", trxs[x].work)
  /\ UNCHANGED <<delayRelease, unitVars, mig, closeVars, poolVars, driver, parent, nextTrx, tasks,
                 ncalls>>
  /\ last' = NoCall

\* the callback of COMMIT: on success the finally block and the work's result,
\* on failure the catch block
CommitDone(x, ok) ==
  /\ trxs[x].pc = "commit"
  /\ IF ok
     THEN /\ trxs' = [trxs EXCEPT ![x].pc = "done",
                        ![x].out = Resolved("WorkResult")]
          /\ trx' = Finally(trx, x)
          /\ log' = log
     ELSE Catch(x, "CommitErr", trxs[x].work)
  /\ UNCHANGED <<delayRelease, unitVars, mig, closeVars, poolVars, driver, parent, nextTrx, tasks,
                 ncalls>>
  /\ last' = NoCall

\* fault: a failed ROLLBACK is swallowed and the caught error thrown again
RollbackDoneSwallow(x, ok) ==
  /\ trxs[x].pc = "rollback"
  /\ trxs' = [trxs EXCEPT ![x].pc = "done",
                ![x].rb = IF ok THEN "ok" ELSE "failed",
                ![x].out = Rejected(trxs[x].err)]
  /\ trx' = Finally(trx, x)
  /\ UNCHANGED <<delayRelease, unitVars, mig, closeVars, poolVars, driver, parent, nextTrx, log, tasks,
                 ncalls>>
  /\ last' = NoCall

\* the callback of ROLLBACK: on success the caught error is thrown again, on
\* failure the rollback's error leaves the catch block; finally runs in both
RollbackDone(x, ok) ==
  /\ trxs[x].pc = "rollback"
  /\ trxs' = [trxs EXCEPT ![x].pc = "done",
                ![x].rb = IF ok THEN "ok" ELSE "failed",
                ![x].out = IF ok THEN Rejected(trxs[x].err)
                                 ELSE Rejected("RollbackErr")]
  /\ trx' = Finally(trx, x)
  /\ UNCHANGED <<delayRelease, unitVars, mig, closeVars, poolVars, driver, parent, nextTrx, log, tasks,
                 ncalls>>
  /\ last' = NoCall

\* ---- pool primitive (generic-pool), as consumed by Sqlite ----

Live == {c \in Conns : pool[c] \in {"idle", "borrowed"}}
Waiting ==
  {t \in Tasks : tasks[t].pc = "acquiring" \/ tasks[t].inner = "acquiring"}

\* the pool never takes a minimum above its maximum
PoolMinimum == IF opts.min > opts.max THEN opts.max ELSE opts.min

\* the pool opens a connection: below its minimum (unless it is draining), or
\* for a waiting acquire when nothing is idle, never beyond its maximum
PoolCreate(c) ==
  /\ pool[c] = "none"
  /\ \A b \in Conns : b < c => pool[b] # "none"
  /\ Cardinality(Live) < opts.max
  /\ \/ Cardinality(Live) < PoolMinimum /\ ~draining
     \/ /\ Waiting # {} \/ closeSt.pending > 0
        /\ ~\E b \in Conns : pool[b] = "idle"
  /\ pool' = [pool EXCEPT ![c] = "idle"]
  /\ UNCHANGED <<delayRelease, unitVars, mig, closeVars, immQ, acquired, released, poolErr, dbVars,
                 tasks, ncalls>>
  /\ last' = NoCall

\* _pool.release(c)
PoolRelease(c) ==
  /\ released' = [released EXCEPT ![c] = @ + 1]
  /\ IF pool[c] = "borrowed"
     THEN pool' = [pool EXCEPT ![c] = "idle"] /\ poolErr' = poolErr
     ELSE pool' = pool /\ poolErr' = TRUE

\* ---- Sqlite ----

\* fault: the option is ignored and the connection goes back at once
ReleaseNow(c) == PoolRelease(c) /\ immQ' = immQ

\* Sqlite._release
Release(c) ==
  IF delayRelease
  THEN immQ' = Append(immQ, c) /\ UNCHANGED <<pool, released, poolErr>>
  ELSE PoolRelease(c) /\ immQ' = immQ

\* the callback _release handed to setImmediate
ImmediateRelease ==
  /\ immQ # <<>>
  /\ PoolRelease(Head(immQ))
  /\ immQ' = Tail(immQ)
  /\ UNCHANGED <<delayRelease, unitVars, mig, closeVars, acquired, dbVars, tasks, ncalls>>
  /\ last' = NoCall

\* the function a pool-level operation hands to _acquireRelease, as far as
\* the operations differ: conn => conn.exec/run/get/all(...args) differ in the
\* driver method only, conn.each also needs its callback, transaction and
\* transactionAsync differ in how _trxWrap invokes the work
FnOf(kind) ==
  CASE kind \in {"exec", "run", "get", "all"} -> "call"
    [] kind = "each" -> "each"
    [] kind \in TrxKinds -> "transaction"
    [] OTHER -> kind

\* a caller invokes a pool-level operation: _acquireRelease asks for a
\* connection, which a draining pool refuses at once
Call(t, kind) ==
  /\ tasks[t].pc = "init"
  /\ \A u \in Tasks : u < t => tasks[u].pc # "init"
  /\ tasks' = IF draining
              THEN [tasks EXCEPT ![t].fn = FnOf(kind), ![t].pc = "done",
                      ![t].out = Rejected(ErrDraining)]
              ELSE [tasks EXCEPT ![t].fn = FnOf(kind), ![t].pc = "acquiring"]
  /\ UNCHANGED <<delayRelease, unitVars, mig, closeVars, poolVars, dbVars, ncalls>>
  /\ last' = NoCall

\* _pool.acquire() resolves with an idle connection
PoolDispense(t, c) ==
  /\ tasks[t].pc = "acquiring"
  /\ pool[c] = "idle"
  /\ pool' = [pool EXCEPT ![c] = "borrowed"]
  /\ acquired' = [acquired EXCEPT ![c] = @ + 1]
  /\ tasks' = [tasks EXCEPT ![t].pc = "acquired", ![t].conn = c]
  /\ UNCHANGED <<delayRelease, unitVars, mig, closeVars, immQ, released, poolErr, dbVars, ncalls>>
  /\ last' = NoCall

\* fault: the release follows the delegated call instead of sitting in a
\* finally block, so a failed call skips it
FinishNoFinally(t, out) ==
  /\ IF out.st = "resolved"
     THEN Release(tasks[t].conn)
     ELSE UNCHANGED <<pool, immQ, released, poolErr>>
  /\ tasks' = [tasks EXCEPT ![t].pc = "done", ![t].out = out]

\* the end of _acquireRelease: the finally block, then the outcome
Finish(t, out) ==
  /\ Release(tasks[t].conn)
  /\ tasks' = [tasks EXCEPT ![t].pc = "done", ![t].out = out]
\* Sqlite.exec/run/get/all/each: the connection's method is called inside the
\* try block; a synchronous throw goes straight to the finally block
DelegateSimple(t, hasCb) ==
  /\ tasks[t].pc = "acquired"
  /\ tasks[t].fn \in {"call", "each"}
  /\ tasks[t].fn = "each" \/ hasCb
  /\ LET c == tasks[t].conn
         chk == CallCheck(c, IF tasks[t].fn = "each" THEN "each" ELSE "run",
                          hasCb)
     IN IF chk = "ok"
        THEN /\ log' = Issue(log, c, "SQL")
             /\ tasks' = [tasks EXCEPT ![t].pc = "pending"]
             /\ UNCHANGED poolVars
        ELSE /\ Finish(t, Rejected(chk))
             /\ log' = log
             /\ UNCHANGED acquired
  /\ UNCHANGED <<delayRelease, unitVars, mig, closeVars, driver, parent, trx, trxs, nextTrx, ncalls>>
  /\ last' = NoCall

\* the driver's callback for the call a pool-level operation is waiting on
Settle(t, ok) ==
  /\ tasks[t].pc = "pending"
  /\ tasks[t].await = Null
  /\ Finish(t, IF ~ok THEN Rejected("DriverErr")
               ELSE IF tasks[t].ret # "none" THEN Resolved(tasks[t].ret)
               ELSE Resolved("Result"))
  /\ UNCHANGED <<delayRelease, unitVars, mig, closeVars, acquired, dbVars, ncalls>>
  /\ last' = NoCall

\* Sqlite.use/useAsync: the caller's function is invoked with the connection
DelegateUse(t) ==
  /\ tasks[t].pc = "acquired"
  /\ tasks[t].fn \in UseKinds
  /\ tasks' = [tasks EXCEPT ![t].pc = "body", ![t].invoked = @ + 1]
  /\ UNCHANGED <<delayRelease, unitVars, mig, closeVars, poolVars, dbVars, ncalls>>
  /\ last' = NoCall

\* the body throws, or the awaitable it returned settles
BodySettle(t, ok) ==
  /\ tasks[t].pc = "body"
  /\ Finish(t, IF ok THEN Resolved("Result") ELSE Rejected("BodyErr"))
  /\ UNCHANGED <<delayRelease, unitVars, mig, closeVars, acquired, dbVars, ncalls>>
  /\ last' = NoCall

\* fault: a return value that is not thenable is passed on as it is
BodyReturnNoWait(t) ==
  /\ tasks[t].pc = "body"
  /\ tasks[t].fn = "use"
  /\ Release(tasks[t].conn)
  /\ tasks' = [tasks EXCEPT ![t].pc = "done", ![t].ret = "Returned",
                            ![t].out = Resolved("Returned")]
  /\ UNCHANGED <<delayRelease, unitVars, mig, closeVars, acquired, dbVars,
                 ncalls>>
  /\ last' = NoCall

\* the function given to use() returns something that is not thenable:
\* conn.wait().then(() => result)
BodyReturnValue(t) ==
  /\ tasks[t].pc = "body"
  /\ tasks[t].fn = "use"
  /\ LET c == tasks[t].conn
         chk == CallCheck(c, "wait", TRUE)
     IN IF chk = "ok"
        THEN /\ log' = Issue(log, c, "")
             /\ tasks' = [tasks EXCEPT ![t].pc = "pending",
                                       ![t].ret = "Returned"]
             /\ UNCHANGED poolVars
        ELSE /\ Finish(t, Rejected(chk))
             /\ log' = log
             /\ UNCHANGED acquired
  /\ UNCHANGED <<delayRelease, unitVars, mig, closeVars, driver, parent, trx, trxs, nextTrx, ncalls>>
  /\ last' = NoCall

\* Sqlite.transaction/transactionAsync: conn.transaction(fn, immediate)
DelegateTransaction(t, imm, isAsync) ==
  /\ tasks[t].pc = "acquired"
  /\ tasks[t].fn = "transaction"
  /\ LET c == tasks[t].conn
         chk == TrxCheck(c, TRUE)
     IN /\ chk = "ok" => nextTrx < MaxTrx
        /\ TrxWrap(c, imm, isAsync)
        /\ IF chk = "ok"
           THEN /\ tasks' = [tasks EXCEPT ![t].pc = "pending",
                               ![t].await = NewProxy]
                /\ UNCHANGED poolVars
           ELSE /\ Finish(t, Rejected(chk))
                /\ UNCHANGED acquired
  /\ UNCHANGED <<delayRelease, unitVars, mig, closeVars, ncalls>>

\* the transaction a pool-level operation is waiting on has settled
SettleTransaction(t) ==
  /\ tasks[t].pc = "pending"
  /\ tasks[t].await # Null
  /\ trxs[tasks[t].await].pc = "done"
  /\ Finish(t, trxs[tasks[t].await].out)
  /\ UNCHANGED <<delayRelease, unitVars, mig, closeVars, acquired, dbVars, ncalls>>
  /\ last' = NoCall

\* ---- acquisition failure and close() ----

\* fault: a failed acquisition falls into the finally block of _acquireRelease
AcquireFailRelease(t) ==
  /\ tasks[t].pc = "acquiring"
  /\ ~\E c \in Conns : pool[c] = "idle"
  /\ \E c \in Conns :
       /\ Release(c)
       /\ tasks' = [tasks EXCEPT ![t].pc = "done",
                      ![t].out = Rejected(ErrTimeout)]
  /\ UNCHANGED <<delayRelease, unitVars, mig, closeVars, acquired, dbVars, ncalls>>
  /\ last' = NoCall

\* _pool.acquire() rejects: no connection became available within
\* acquireTimeoutMillis; the error leaves _acquireRelease before its try block
AcquireFail(t) ==
  /\ tasks[t].pc = "acquiring"
  /\ ~\E c \in Conns : pool[c] = "idle"
  /\ tasks' = [tasks EXCEPT ![t].pc = "done", ![t].out = Rejected(ErrTimeout)]
  /\ UNCHANGED <<delayRelease, unitVars, mig, closeVars, poolVars, dbVars, ncalls>>
  /\ last' = NoCall

\* this._pool.size
Size == Cardinality(Live)
Borrowed == {c \in Conns : pool[c] = "borrowed"}
Idle == {c \in Conns : pool[c] = "idle"}
\* the connections the factory ever created
Created == {c \in Conns : pool[c] # "none"}

\* the pool forgets every connection of cs at once (they leave its size)
DestroyAll(p, cs) == [c \in Conns |-> IF c \in cs THEN "destroyed" ELSE p[c]]

\* fault: a factory.destroy that drops the connection without closing it
CloseHandlesForget(k, cs) == k

\* Sqlite._destroy, the pool's factory.destroy: driver.close() on each handle
CloseHandles(k, cs) == [c \in Conns |-> IF c \in cs THEN k[c] + 1 ELSE k[c]]

Range(q) == {q[i] : i \in 1..Len(q)}

\* close() up to its first suspension: one acquire() per pooled connection,
\* where every acquire() that has to wait makes the pool open a connection
\* while it is below its maximum, so the loop ends at the pool's size when
\* nothing is borrowed and at its maximum otherwise; then _pool.drain()
CloseCall ==
  /\ closeSt.pc = "none"
  /\ closeSt' = [closeSt EXCEPT
                   !.pc = "acquiring",
                   !.pending = IF Borrowed = {} /\ Waiting = {}
                               THEN Size ELSE opts.max,
                   !.idle = Cardinality(Idle),
                   !.busy = Borrowed # {} \/ Waiting # {},
                   !.created = Cardinality(Created),
                   !.queued = Cardinality(Waiting)]
  /\ draining' = TRUE
  /\ UNCHANGED <<delayRelease, unitVars, mig, closes, poolVars, dbVars, tasks, ncalls>>
  /\ last' = NoCall

\* fault: an acquire() that hands out a connection that is still lent
CloseAcquireAny(c) ==
  /\ closeSt.pc = "acquiring"
  /\ closeSt.pending > 0
  /\ pool[c] \in {"idle", "borrowed"}
  /\ c \notin Range(closeSt.closing)
  /\ pool' = [pool EXCEPT ![c] = "borrowed"]
  /\ acquired' = [acquired EXCEPT ![c] = @ + 1]
  /\ closeSt' = [closeSt EXCEPT !.pending = @ - 1,
                   !.closing = Append(@, c),
                   !.got = @ \cup {c}]
  /\ UNCHANGED <<delayRelease, unitVars, mig, draining, closes, immQ, released, poolErr,
                 dbVars, tasks, ncalls>>
  /\ last' = NoCall

\* one of close()'s acquire() calls resolves with an idle connection
CloseAcquire(c) ==
  /\ closeSt.pc = "acquiring"
  /\ closeSt.pending > 0
  /\ pool[c] = "idle"
  /\ pool' = [pool EXCEPT ![c] = "borrowed"]
  /\ acquired' = [acquired EXCEPT ![c] = @ + 1]
  /\ closeSt' = [closeSt EXCEPT !.pending = @ - 1,
                   !.closing = Append(@, c),
                   !.got = @ \cup {c}]
  /\ UNCHANGED <<delayRelease, unitVars, mig, draining, closes, immQ, released, poolErr,
                 dbVars, tasks, ncalls>>
  /\ last' = NoCall

\* one of close()'s acquire() calls times out: .catch(() => {})
CloseAcquireFail ==
  /\ closeSt.pc = "acquiring"
  /\ closeSt.pending > 0
  /\ Idle = {}
  /\ closeSt' = [closeSt EXCEPT !.pending = @ - 1, !.failed = @ + 1]
  /\ UNCHANGED <<delayRelease, unitVars, mig, draining, closes, poolVars, dbVars, tasks,
                 ncalls>>
  /\ last' = NoCall

\* fault: slice(1) in place of splice(1), so that closing keeps every
\* connection for the final pass
CloseAcquiredNoSplice ==
  /\ closeSt.pc = "acquiring"
  /\ closeSt.pending = 0
  /\ LET rest == IF closeSt.closing = <<>> THEN {}
                 ELSE Range(Tail(closeSt.closing))
     IN /\ pool' = DestroyAll(pool, rest \cap Borrowed)
        /\ closes' = CloseHandles(closes, rest \cap Borrowed)
        /\ closeSt' = [closeSt EXCEPT !.pc = "poll", !.pass1 = rest]
  /\ UNCHANGED <<delayRelease, unitVars, mig, draining, immQ, acquired, released, poolErr,
                 dbVars, tasks, ncalls>>
  /\ last' = NoCall

\* Promise.all(to_close) resolves: all but the first acquired connection are
\* destroyed
CloseAcquired ==
  /\ closeSt.pc = "acquiring"
  /\ closeSt.pending = 0
  /\ LET rest == IF closeSt.closing = <<>> THEN {}
                 ELSE Range(Tail(closeSt.closing))
     IN /\ pool' = DestroyAll(pool, rest \cap Borrowed)
        /\ closes' = CloseHandles(closes, rest \cap Borrowed)
        /\ closeSt' = [closeSt EXCEPT
                         !.pc = "poll",
                         !.closing = IF @ = <<>> THEN @ ELSE <<Head(@)>>,
                         !.pass1 = rest]
  /\ UNCHANGED <<delayRelease, unitVars, mig, draining, immQ, acquired, released, poolErr,
                 dbVars, tasks, ncalls>>
  /\ last' = NoCall

\* while (this._pool.size > 1) yield setImmediate; then the connection kept
\* back is destroyed
ClosePoll ==
  /\ closeSt.pc = "poll"
  /\ IF Size > 1
     THEN UNCHANGED <<pool, closes, closeSt>>
     ELSE /\ pool' = DestroyAll(pool, Range(closeSt.closing) \cap Borrowed)
          /\ closes' = CloseHandles(closes, Range(closeSt.closing) \cap Borrowed)
          /\ closeSt' = [closeSt EXCEPT !.pc = "drain",
                           !.pass2 = Range(closeSt.closing)]
  /\ UNCHANGED <<delayRelease, unitVars, mig, draining, immQ, acquired, released, poolErr,
                 dbVars, tasks, ncalls>>
  /\ last' = NoCall

\* yield drained: every acquire() has settled and every lent connection has
\* come back or been destroyed; then _pool.clear() is called
CloseDrained ==
  /\ closeSt.pc = "drain"
  /\ Waiting = {}
  /\ Borrowed = {}
  /\ closeSt' = [closeSt EXCEPT !.pc = "clear"]
  /\ UNCHANGED <<delayRelease, unitVars, mig, draining, closes, poolVars, dbVars, tasks,
                 ncalls>>
  /\ last' = NoCall

\* _pool.clear() destroys the idle connections and close() resolves
CloseClear ==
  /\ closeSt.pc = "clear"
  /\ pool' = [c \in Conns |-> IF pool[c] = "idle" THEN "destroyed"
                                ELSE pool[c]]
  /\ closes' = CloseHandles(closes, Idle)
  /\ closeSt' = [closeSt EXCEPT !.pc = "done"]
  /\ UNCHANGED <<delayRelease, unitVars, mig, draining, immQ, acquired, released, poolErr,
                 dbVars, tasks, ncalls>>
  /\ last' = NoCall

\* a pool that has been serving for a while: k connections open and idle
\* (counters and logs start from here)
InitClose ==
  /\ delayRelease \in BOOLEAN
  /\ \E k \in PoolMin..PoolMax :
       pool = [c \in Conns |-> IF c <= k THEN "idle" ELSE "none"]
  /\ immQ = <<>>
  /\ acquired = [c \in Conns |-> 0]
  /\ released = [c \in Conns |-> 0]
  /\ poolErr = FALSE
  /\ driver = [d \in Dbs |-> IF d \in Conns THEN d ELSE Null]
  /\ parent = [d \in Dbs |-> Null]
  /\ trx = [d \in Dbs |-> Null]
  /\ trxs = [x \in Proxies |-> NoTrx]
  /\ nextTrx = 0
  /\ log = [c \in Conns |-> <<>>]
  /\ tasks = [t \in Tasks |-> NoTask]
  /\ ncalls = 0
  /\ last = NoCall
  /\ draining = FALSE
  /\ closeSt = NoClose
  /\ closes = [c \in Conns |-> 0]
  /\ opts = FileOpts
  /\ stream = NoStream
  /\ prep = NoPrep
  /\ runner = NoRunner
  /\ make = NoMake
  /\ mig = NoMig

\* the steps that are bound to happen once enabled: callbacks of the driver,
\* of the pool and of setImmediate, timers, and functions that end
Progress ==
  \/ \E c \in Conns : PoolCreate(c)
  \/ \E t \in Tasks, c \in Conns : PoolDispense(t, c)
  \/ \E t \in Tasks : AcquireFail(t)
  \/ \E t \in Tasks, b \in BOOLEAN : DelegateSimple(t, b)
  \/ \E t \in Tasks, b \in BOOLEAN : Settle(t, b)
  \/ \E t \in Tasks : DelegateUse(t)
  \/ \E t \in Tasks, b \in BOOLEAN : BodySettle(t, b)
  \/ \E t \in Tasks : BodyReturnValue(t)
  \/ ImmediateRelease
  \/ \E c \in Conns : CloseAcquire(c)
  \/ CloseAcquireFail
  \/ CloseAcquired
  \/ ClosePoll
  \/ CloseDrained
  \/ CloseClear

\* pool-level operations racing with close(); of the operations the simple
\* calls and use/useAsync stand for all, a transaction holding its connection
\* exactly as a use() body does
NextClose ==
  \/ \E t \in Tasks, k \in SimpleKinds \cup UseKinds : Call(t, k)
  \/ CloseCall
  \/ Progress

SpecClose == InitClose /\ [][NextClose]_vars

\* the same with every bound-to-happen step eventually taken
SpecCloseFair == SpecClose /\ WF_vars(Progress)

\* the pool facade under concurrent pool-level operations; what the callers'
\* functions do with the connection they are handed is left to SpecDb
Next ==
  \/ \E t \in Tasks, k \in Kinds : Call(t, k)
  \/ \E c \in Conns : PoolCreate(c)
  \/ \E t \in Tasks, c \in Conns : PoolDispense(t, c)
  \/ \E t \in Tasks, b \in BOOLEAN : DelegateSimple(t, b)
  \/ \E t \in Tasks, b \in BOOLEAN : Settle(t, b)
  \/ \E t \in Tasks : DelegateUse(t)
  \/ \E t \in Tasks, b \in BOOLEAN : BodySettle(t, b)
  \/ \E t \in Tasks : BodyReturnValue(t)
  \/ \E t \in Tasks, b \in BOOLEAN, a \in BOOLEAN : DelegateTransaction(t, b, a)
  \/ \E t \in Tasks : SettleTransaction(t)
  \/ ImmediateRelease
  \/ \E x \in Proxies, b \in BOOLEAN : BeginDone(x, b)
  \/ \E x \in Proxies, h \in {"resolved", "rejected", "threw"} :
       WorkDone(x, h)
  \/ \E x \in Proxies, b \in BOOLEAN : CommitDone(x, b)
  \/ \E x \in Proxies, b \in BOOLEAN : RollbackDone(x, b)

Spec == Init /\ [][Next]_vars

\* the filename argument of the constructor: omitted, anonymous, in-memory, or
\* a database file
Filenames == {"undefined", "", ":memory:", "db.sqlite"}

\* a pool as constructed from any filename and any min and max options
InitCtor ==
  /\ delayRelease \in BOOLEAN
  /\ pool = [c \in Conns |-> "none"]
  /\ immQ = <<>>
  /\ acquired = [c \in Conns |-> 0]
  /\ released = [c \in Conns |-> 0]
  /\ poolErr = FALSE
  /\ driver = [d \in Dbs |-> IF d \in Conns THEN d ELSE Null]
  /\ parent = [d \in Dbs |-> Null]
  /\ trx = [d \in Dbs |-> Null]
  /\ trxs = [x \in Proxies |-> NoTrx]
  /\ nextTrx = 0
  /\ log = [c \in Conns |-> <<>>]
  /\ tasks = [t \in Tasks |-> NoTask]
  /\ ncalls = 0
  /\ last = NoCall
  /\ draining = FALSE
  /\ closeSt = NoClose
  /\ closes = [c \in Conns |-> 0]
  /\ mig = NoMig
  /\ \E f \in Filenames, min \in 1..PoolMax, max \in 1..PoolMax :
       opts = PoolOpts(f, min, max)
  /\ stream = NoStream
  /\ prep = NoPrep
  /\ runner = NoRunner
  /\ make = NoMake

SpecCtor == InitCtor /\ [][Next]_vars

\* one connection in the hands of a caller: the state Spec reaches when
\* use()/useAsync() has invoked the caller's function with connection 1
InitDb ==
  /\ delayRelease \in BOOLEAN
  /\ pool = [c \in Conns |-> IF c = 1 THEN "borrowed" ELSE "none"]
  /\ immQ = <<>>
  /\ acquired = [c \in Conns |-> IF c = 1 THEN 1 ELSE 0]
  /\ released = [c \in Conns |-> 0]
  /\ poolErr = FALSE
  /\ driver = [d \in Dbs |-> IF d \in Conns THEN d ELSE Null]
  /\ parent = [d \in Dbs |-> Null]
  /\ trx = [d \in Dbs |-> Null]
  /\ trxs = [x \in Proxies |-> NoTrx]
  /\ nextTrx = 0
  /\ log = [c \in Conns |-> <<>>]
  /\ \E k \in UseKinds :
       tasks = [t \in Tasks |-> IF t = 1
                  THEN [NoTask EXCEPT !.fn = k, !.pc = "body", !.conn = 1,
                                      !.invoked = 1]
                  ELSE NoTask]
  /\ ncalls = 0
  /\ last = NoCall
  /\ draining = FALSE
  /\ closeSt = NoClose
  /\ closes = [c \in Conns |-> 0]
  /\ opts = FileOpts
  /\ stream = NoStream
  /\ prep = NoPrep
  /\ runner = NoRunner
  /\ make = NoMake
  /\ mig = NoMig

\* what the function holding the connection, and the works of the
\* transactions it starts, do with it, and the driver's callbacks
NextDb ==
  \/ \E d \in Dbs, op \in ConnOps, b \in BOOLEAN : ConnCall(d, op, b)
  \/ \E d \in Dbs, b \in BOOLEAN, a \in BOOLEAN : ConnTransaction(d, b, a)
  \/ \E x \in Proxies, b \in BOOLEAN : BeginDone(x, b)
  \/ \E x \in Proxies, h \in {"resolved", "rejected", "threw"} :
       WorkDone(x, h)
  \/ \E x \in Proxies, b \in BOOLEAN : CommitDone(x, b)
  \/ \E x \in Proxies, b \in BOOLEAN : RollbackDone(x, b)

SpecDb == InitDb /\ [][NextDb]_vars

\* the state SpecDb starts from is one Spec reaches
InitDbReached ==
  /\ pool[1] = "borrowed" /\ acquired[1] = 1 /\ released[1] = 0
  /\ immQ = <<>> /\ nextTrx = 0 /\ log[1] = <<>>
  /\ tasks[1].pc = "body" /\ tasks[1].conn = 1
  /\ \A t \in Tasks \ {1} : tasks[t] = NoTask

TypeOK ==
  /\ delayRelease \in BOOLEAN
  /\ \A c \in Conns : pool[c] \in {"none", "idle", "borrowed", "destroyed"}
  /\ \A d \in Dbs : trx[d] \in {Null} \cup Proxies
  /\ \A d \in Dbs : parent[d] \in {Null} \cup Dbs
  /\ nextTrx \in 0..MaxTrx
  /\ ncalls \in 0..MaxCalls
  /\ draining \in BOOLEAN
  /\ closeSt.pc \in {"none", "acquiring", "poll", "drain", "clear", "done"}
  /\ closeSt.pending \in 0..PoolMax
  /\ \A c \in Conns : closes[c] \in 0..1
\* ---- properties ----

\* the driver calls made through proxy x, in the order its handle received them
Via(x) == SelectSeq(log[driver[x]], LAMBDA s : s.via = x)
CountSql(q, sqls) == Cardinality({i \in 1..Len(q) : q[i].sql \in sqls})
Begins == {"BEGIN", "BEGIN IMMEDIATE"}
Started(x) == trxs[x].pc # "unused"
Settled(x) == trxs[x].pc = "done"
Active(x) == trxs[x].pc \in {"begin", "work", "commit", "rollback"}

\* C1: once a transaction()/transactionAsync() call that passed the entry
\* check has settled, the guard of its connection no longer points at its
\* proxy, whatever failed (BEGIN, the work, COMMIT or ROLLBACK).
C1_GuardClearWhenSettled ==
  \A x \in Proxies : Settled(x) => trx[parent[x]] # x

\* C2: on every handle at most one managed transaction is between its BEGIN
\* and the settling of its COMMIT/ROLLBACK, so a second BEGIN or a second work
\* never starts while an earlier transaction on that handle is unfinished.
C2_OneActiveTransaction ==
  \A h \in Conns :
    Cardinality({x \in Proxies : Active(x) /\ driver[x] = h}) <= 1

C2_Witness ==
  /\ last.op = "transaction"
  /\ last.err = ErrTrxActive
  /\ \E x \in Proxies : Active(x) /\ parent[x] = last.d

\* C3: transaction()/transactionAsync() on a connection whose guard is set
\* fails with the 'transaction currently active' error, makes no driver call,
\* starts no work and leaves the guard at the existing proxy.
C3_ReentryFailsFast ==
  [][\A d \in Dbs, imm \in BOOLEAN, a \in BOOLEAN :
        (ConnTransaction(d, imm, a) /\ trx[d] # Null) =>
          /\ last'.err = ErrTrxActive
          /\ log' = log /\ trxs' = trxs /\ trx' = trx
          /\ nextTrx' = nextTrx]_vars

C3_Witness ==
  /\ last.op = "transaction"
  /\ last.guard # Null
  /\ last.err = ErrTrxActive
  /\ trx[last.d] = last.guard
  /\ trxs[last.guard].pc = "work"

\* C4: while a connection's guard is set, run/get/all/exec/each/prepare/wait
\* on it fail with 'transaction currently active' and reach no driver, while
\* the same call on the transaction's proxy is handed to the driver.
C4_ParentBlockedProxyDelegated ==
  [][\A d \in Dbs, op \in ConnOps :
        /\ \A b \in BOOLEAN :
             (ConnCall(d, op, b) /\ trx[d] # Null) =>
               last'.err = ErrTrxActive /\ log' = log
        /\ (ConnCall(d, op, TRUE) /\ d \in Proxies /\ trx[parent[d]] = d) =>
               /\ last'.err = "ok"
               /\ log' = [log EXCEPT ![driver[d]] =
                            Append(@, Stmt(d, SqlOf(op)))]]_vars

C4_Witness ==
  /\ last.op = "call"
  /\ last.d \in Conns
  /\ last.guard # Null
  /\ last.err = ErrTrxActive
  /\ \A h \in Conns : \A i \in 1..Len(log[h]) : log[h][i].via \in Proxies

\* BEGIN first, then only statements of the work up to position k
BeginThenWork(q, k) ==
  /\ Len(q) >= k
  /\ q[1].sql \in Begins
  /\ \A i \in 2..(k - 1) : q[i].sql \in {"SQL", ""}

\* C5 as claimed: a transaction whose work resolved has sent BEGIN, the
\* work's statements and COMMIT, no ROLLBACK, and resolves with the work's
\* result.
C5_Original ==
  \A x \in Proxies :
    (Settled(x) /\ trxs[x].work = "resolved") =>
      /\ CountSql(Via(x), {"ROLLBACK"}) = 0
      /\ trxs[x].out = Resolved("WorkResult")

\* C5 (amended): a transaction whose work resolved has sent through its proxy
\* exactly one BEGIN (or BEGIN IMMEDIATE) first, then the work's statements,
\* then exactly one COMMIT; when that COMMIT succeeds no ROLLBACK is sent and
\* the future resolves with the work's result, and when it fails the only
\* further statement is one ROLLBACK and the future does not resolve.
C5_CommitAfterWork ==
  \A x \in Proxies :
    trxs[x].work = "resolved" =>
      LET q == Via(x)
          k == CHOOSE i \in 1..(Len(q) + 1) :
                 i = Len(q) + 1 \/ q[i].sql = "COMMIT"
      IN /\ CountSql(q, Begins) = 1
         /\ CountSql(q, {"COMMIT"}) = 1
         /\ BeginThenWork(q, k)
         /\ trxs[x].pc = "commit" => Len(q) = k
         /\ (Settled(x) /\ trxs[x].err = "none") =>
              Len(q) = k /\ trxs[x].out = Resolved("WorkResult")
         /\ trxs[x].err # "none" =>
              /\ Len(q) = k + 1 /\ q[k + 1].sql = "ROLLBACK"
              /\ trxs[x].out.st # "resolved"

C5_Witness ==
  \E x \in Proxies :
    /\ Settled(x)
    /\ trxs[x].work = "resolved"
    /\ trxs[x].out = Resolved("WorkResult")
    /\ Len(Via(x)) = 3

\* C6: a transaction whose work throws or rejects sends BEGIN, then the
\* work's statements, then ROLLBACK and never COMMIT, and when the ROLLBACK
\* succeeds the future rejects with the very error the work raised.
C6_RollbackAfterFailedWork ==
  \A x \in Proxies :
    trxs[x].work = "failed" =>
      LET q == Via(x) IN
        /\ CountSql(q, Begins) = 1
        /\ CountSql(q, {"ROLLBACK"}) = 1
        /\ CountSql(q, {"COMMIT"}) = 0
        /\ BeginThenWork(q, Len(q))
        /\ q[Len(q)].sql = "ROLLBACK"
        /\ (Settled(x) /\ trxs[x].rb = "ok") =>
             trxs[x].out = Rejected("WorkErr")

C6_Witness ==
  \E x \in Proxies :
    /\ Settled(x)
    /\ trxs[x].work = "failed"
    /\ trxs[x].rb = "ok"
    /\ trxs[x].out = Rejected("WorkErr")
\* C7 as claimed: whenever a transaction's future rejects because BEGIN, the
\* work or COMMIT failed, a ROLLBACK was sent through the proxy first.
C7_Original ==
  \A x \in Proxies :
    trxs[x].out.st = "rejected" => CountSql(Via(x), {"ROLLBACK"}) >= 1

\* C7 (amended): whenever the work or COMMIT of a transaction fails, ROLLBACK
\* is sent through the proxy before the future rejects; when BEGIN fails the
\* future rejects with BEGIN's error and no ROLLBACK is sent.
C7_RollbackBeforeReject ==
  \A x \in Proxies :
    LET q == Via(x) IN
      /\ (trxs[x].work = "failed" \/ trxs[x].err = "CommitErr")
           => /\ trxs[x].pc \in {"rollback", "done"}
              /\ CountSql(q, {"ROLLBACK"}) = 1
              /\ q[Len(q)].sql = "ROLLBACK"
      /\ trxs[x].pc \in {"begin", "work", "commit", "rollback"}
           => trxs[x].out = NoOut
      /\ trxs[x].out = Rejected("BeginErr")
           => /\ CountSql(q, {"ROLLBACK"}) = 0
              /\ trxs[x].work = "none"
      /\ (trxs[x].out.st = "rejected" /\ trxs[x].out.v # "BeginErr")
           => CountSql(q, {"ROLLBACK"}) = 1

C7_Witness ==
  \E x \in Proxies :
    /\ Settled(x)
    /\ trxs[x].err = "CommitErr"
    /\ trxs[x].out.st = "rejected"
    /\ CountSql(Via(x), {"ROLLBACK"}) = 1

\* C8: when the ROLLBACK sent after a failed transaction itself fails, the
\* future rejects with the rollback's error; it is not swallowed and the
\* future never resolves.
C8_RollbackFailureSurfaces ==
  \A x \in Proxies :
    trxs[x].rb = "failed" => trxs[x].out = Rejected("RollbackErr")

C8_Witness ==
  \E x \in Proxies :
    /\ Settled(x)
    /\ trxs[x].rb = "failed"
    /\ trxs[x].err = "WorkErr"

\* the connections on which some transaction's ROLLBACK failed
RollbackFailed == {c \in Conns :
                     \E x \in Proxies : driver[x] = c /\ trxs[x].rb = "failed"}

\* C9: a pooled connection on which a transaction's ROLLBACK failed is
\* destroyed and never returns to the pool's idle set.
C9_FailedRollbackNeverIdle ==
  \A c \in RollbackFailed : pool[c] # "idle"

\* bookkeeping of one connection's loans
Holding(c) == Cardinality({t \in Tasks :
                 tasks[t].conn = c /\ tasks[t].pc \in {"acquired", "pending",
                                                       "body"}})
Scheduled(c) == Cardinality({i \in 1..Len(immQ) : immQ[i] = c})

\* C10: every successful acquire of a pool-level operation is matched by
\* exactly one release of that connection however the delegated call ends:
\* no connection is released twice, and a borrowed connection is held by an
\* unfinished operation or has its one release scheduled.
C10_AcquireReleasePaired ==
  /\ ~poolErr
  /\ \A c \in Conns :
       /\ Holding(c) <= 1
       /\ acquired[c] = released[c] + Scheduled(c) + Holding(c)
       /\ pool[c] = "borrowed" <=> Scheduled(c) + Holding(c) = 1
  /\ \A t \in Tasks :
       tasks[t].pc = "done" =>
         released[tasks[t].conn] + Scheduled(tasks[t].conn) >= 1

C10_Witness ==
  \E t \in Tasks :
    /\ tasks[t].pc = "done"
    /\ tasks[t].out = Rejected("Callback argument is required")
    /\ released[tasks[t].conn] = 1
    /\ acquired[tasks[t].conn] = 1
    /\ pool[tasks[t].conn] = "idle"

\* the handles that received a close() call
Closed == {c \in Conns : closes[c] >= 1}
HeldBy(t) == tasks[t].pc \in {"acquired", "pending", "body"}

\* C11: close() called on a pool with N idle connections, none lent and no
\* acquire waiting makes at most one driver close() call per handle, never
\* more than N in all, absorbs no failure, and when its future resolves
\* exactly N handles have been closed and the pool's size is 0.
C11_CloseClosesEachIdle ==
  (closeSt.pc # "none" /\ ~closeSt.busy) =>
    /\ \A c \in Conns : closes[c] <= 1
    /\ Cardinality(Closed) <= closeSt.idle
    /\ closeSt.failed = 0
    /\ closeSt.pc = "done" =>
         Cardinality(Closed) = closeSt.idle /\ Size = 0

C11_Witness ==
  /\ closeSt.pc = "done"
  /\ ~closeSt.busy
  /\ closeSt.idle = 2
  /\ Closed = {1, 2}

\* C12: a handle is never closed while a pool-level operation that borrowed
\* its connection is still in flight: as long as the operation holds the
\* connection the pool counts it as lent and its handle has received no
\* close(), and no settled operation that held a connection ended with an
\* error of the pool.
C12_NoCloseWhileHeld ==
  \A t \in Tasks :
    /\ HeldBy(t) =>
         pool[tasks[t].conn] = "borrowed" /\ closes[tasks[t].conn] = 0
    /\ (tasks[t].pc = "done" /\ tasks[t].conn # Null) =>
         tasks[t].out.v \notin {ErrDraining, ErrTimeout}

C12_Witness ==
  /\ closeSt.pc = "done"
  /\ closeSt.busy
  /\ \E t \in Tasks :
       /\ tasks[t].pc = "done"
       /\ tasks[t].out = Resolved("Result")
       /\ closes[tasks[t].conn] = 1

\* C13: close(), once called, eventually settles, also when some of its
\* queued acquisitions fail.
C13_CloseSettles == (closeSt.pc = "acquiring") ~> (closeSt.pc = "done")

\* C14: when the acquisition of a pool-level operation fails (the request
\* times out, or the pool is draining) the operation's future rejects with
\* the pool's error, the delegated function is not invoked, no driver call is
\* made and no connection is released.
C14_AcquireFailureNoRelease ==
  [][\A t \in Tasks :
        ((\E k \in Kinds : Call(t, k) /\ draining) \/ AcquireFail(t)) =>
          /\ tasks'[t].pc = "done"
          /\ tasks'[t].conn = Null
          /\ tasks'[t].out = Rejected(IF draining /\ tasks[t].pc = "init"
                                      THEN ErrDraining ELSE ErrTimeout)
          /\ log' = log /\ trxs' = trxs
          /\ pool' = pool /\ immQ' = immQ /\ released' = released]_vars

C14_Witness ==
  \E t \in Tasks :
    /\ tasks[t].pc = "done"
    /\ tasks[t].out = Rejected(ErrTimeout)
    /\ tasks[t].conn = Null
    /\ immQ = <<>>
    /\ \A c \in Conns : released[c] = 0 /\ log[c] = <<>>

\* C15: transaction()/transactionAsync() called on a transaction proxy fails
\* with the 'managed savepoints are not supported' error, makes no driver
\* call and builds no proxy; so the parent of every proxy is a pooled
\* connection, never a proxy, and the guard of a proxy is never set.
C15_NoNestedTransaction ==
  /\ [](\A x \in Proxies :
          /\ trx[x] = Null
          /\ Started(x) => parent[x] \in Conns)
  /\ [][\A x \in Proxies, imm \in BOOLEAN, a \in BOOLEAN :
          ConnTransaction(x, imm, a) =>
            /\ last'.err = ErrSavepoint
            /\ log' = log /\ trxs' = trxs /\ trx' = trx
            /\ parent' = parent /\ nextTrx' = nextTrx]_vars

C15_Witness ==
  /\ last.op = "transaction"
  /\ last.d \in Proxies
  /\ last.err = ErrSavepoint
  /\ trxs[last.d].pc = "work"

\* ---- migrate() ----

\* the lines /^--\s+?down/mi matches, and other comment lines
Markers == {"-- Down", "-- down"}
Comments == Markers \cup {"-- note"}

\* contents of a migration file, line by line: complete, without separator,
\* ending with the separator, and with comments and a lower-case separator
Texts == { <<"UP", "-- Down", "DOWN">>,
           <<"UP">>,
           <<"UP", "-- Down">>,
           <<"-- note", "UP", "-- down", "-- note", "DOWN">> }

ErrNoDown == "The file is missing a '-- Down' separator."
ErrNoFiles == "No migration files found"

\* data.split(/^--\s+?down/mi): the position of the first separator
FirstMarker(text) ==
  CHOOSE i \in 1..(Len(text) + 1) :
    /\ i = Len(text) + 1 \/ text[i] \in Markers
    /\ \A j \in 1..(i - 1) : text[j] \notin Markers

\* const [up, down] = data.split(...)
SplitUp(text) == SubSeq(text, 1, FirstMarker(text) - 1)
SplitDown(text) ==
  LET rest == SubSeq(text, FirstMarker(text) + 1, Len(text))
  IN SubSeq(rest, 1, FirstMarker(rest) - 1)

\* !down: no separator (down is undefined) or nothing after it (down is '')
NoDown(text) == FirstMarker(text) >= Len(text)

\* .replace(/^--.*?$/gm, '').trim()
StripComments(lines) == SelectSeq(lines, LAMBDA l : l \notin Comments)

\* a script as handed to exec(): whose migration it comes from and its text
Script(id, lines) == [of |-> id, text |-> lines]

\* the name in the filename of the migration file with this id
NameOf(k) == <<"name", k>>

\* { id, name, up, down } of a migration file
Parsed(f) == [id |-> f.id, name |-> NameOf(f.id),
              up |-> Script(f.id, StripComments(SplitUp(f.text))),
              down |-> Script(f.id, StripComments(SplitDown(f.text)))]

\* the rows of a table in the order of ORDER BY id ASC
RECURSIVE AscById(_)
AscById(S) ==
  IF S = {} THEN <<>>
  ELSE LET m == CHOOSE r \in S : \A q \in S : r.id <= q.id
       IN <<m>> \o AscById(S \ {m})

\* the orders in which fs.readdir can list the files with these ids
Listings(ids) ==
  {q \in [1..Cardinality(ids) -> ids] :
     \A i, j \in 1..Cardinality(ids) : q[i] = q[j] => i = j}

\* fault: the files are taken in the order of the listing
Unsorted(q) == q

RECURSIVE InsertId(_, _)
InsertId(q, k) ==
  IF q = <<>> THEN <<k>>
  ELSE IF k < Head(q) THEN <<k>> \o q
  ELSE <<Head(q)>> \o InsertId(Tail(q), k)

\* files.sort((a, b) => a.id > b.id ? 1 : a.id < b.id ? -1 : 0), on the ids
RECURSIVE SortIds(_)
SortIds(q) == IF q = <<>> THEN <<>> ELSE InsertId(SortIds(Tail(q)), Head(q))

\* the sorted list with the up and down scripts read from each file
FileOf(k) == CHOOSE f \in mig.files : f.id = k
ParsedList(q) == [i \in 1..Len(q) |-> Parsed(FileOf(q[i]))]

\* the descending copy of dbMigrations
Reverse(q) == [i \in 1..Len(q) |-> q[Len(q) + 1 - i]]

Ids(S) == {r.id : r \in S}

\* force: absent, 'last' or an integer
Forces == {[kind |-> "none", n |-> 0], [kind |-> "last", n |-> 0]}
            \cup {[kind |-> "int", n |-> k] : k \in 0..MaxMigId}

\* the rows a migrations table can hold when migrate() is called: applied
\* earlier, each with the down script stored then
OldRow(k) == [id |-> k, down |-> Script(k, <<"OLD">>)]

\* what a committed transaction of migrate() did to the migrations table
Effect(T, x) ==
  IF trxs[x].out.st # "resolved" THEN T
  ELSE LET q == Via(x)
           dels == {q[i].id : i \in {j \in 1..Len(q) : q[j].sql = "DELETE"}}
           ins == {[id |-> q[i].id, down |-> q[i].down] :
                     i \in {j \in 1..Len(q) : q[j].sql = "INSERT"}}
       IN {r \in T : r.id \notin dels} \cup ins

\* the rows of the migrations table: those found at the start with the
\* effects of the committed transactions, in order
RECURSIVE Replay(_, _)
Replay(T, x) ==
  IF x > PoolMax + nextTrx THEN T ELSE Replay(Effect(T, x), x + 1)
Table == Replay(mig.rows0, PoolMax + 1)
TableExists == mig.existed \/ mig.created

\* migrate() has been called: the files of migrationsPath, the force option,
\* the table as it is, nothing read yet
StartMig(files, order, force, rows, existed) ==
  [pc |-> "read", files |-> files, order |-> order, listed |-> <<>>,
   force |-> force, rows0 |-> rows,
   existed |-> existed, created |-> FALSE, migs |-> <<>>, dbm |-> <<>>,
   prev |-> <<>>, ups |-> <<>>, cur |-> Null, x |-> Null, out |-> NoOut,
   run |-> 1, mark |-> 0, xmark |-> 0, tmark |-> {}]

InitMig ==
  /\ delayRelease = TRUE      \* defaults.delayRelease
  /\ pool = [c \in Conns |-> IF c = 1 THEN "idle" ELSE "none"]
  /\ immQ = <<>>
  /\ acquired = [c \in Conns |-> 0]
  /\ released = [c \in Conns |-> 0]
  /\ poolErr = FALSE
  /\ driver = [d \in Dbs |-> IF d \in Conns THEN d ELSE Null]
  /\ parent = [d \in Dbs |-> Null]
  /\ trx = [d \in Dbs |-> Null]
  /\ trxs = [x \in Proxies |-> NoTrx]
  /\ nextTrx = 0
  /\ log = [c \in Conns |-> <<>>]
  /\ tasks = [t \in Tasks |-> NoTask]
  /\ ncalls = 0
  /\ last = NoCall
  /\ draining = FALSE
  /\ closeSt = NoClose
  /\ closes = [c \in Conns |-> 0]
  /\ opts = FileOpts
  /\ stream = NoStream
  /\ prep = NoPrep
  /\ runner = NoRunner
  /\ make = NoMake
  /\ \E ids \in SUBSET (1..MaxMigId), rids \in SUBSET (1..MaxMigId),
        force \in Forces, existed \in BOOLEAN :
       /\ rids # {} => existed
       /\ \E txt \in [ids -> Texts], order \in Listings(ids) :
            mig = StartMig({[id |-> k, text |-> txt[k]] : k \in ids}, order,
                           force, {OldRow(k) : k \in rids}, existed)

\* migrate() rejects before it has a connection
MigReject(e) == mig' = [mig EXCEPT !.pc = "done", !.out = Rejected(e)]

\* fault: an error leaves migrate() with the connection still held
MigFailKeep(e) ==
  MigReject(e) /\ UNCHANGED <<pool, immQ, released, poolErr>>

\* an error leaves the function given to useAsync: _acquireRelease releases
\* the connection and migrate() rejects
MigFail(e) == MigReject(e) /\ Release(1)

\* fs.readdir and the check that there is a migration file
MigRead(ok) ==
  /\ mig.pc = "read"
  /\ IF ~ok THEN MigReject("ReadErr")
     ELSE IF mig.order = <<>> THEN MigReject(ErrNoFiles)
     ELSE mig' = [mig EXCEPT !.pc = "parse", !.listed = SortIds(mig.order)]
  /\ UNCHANGED <<delayRelease, unitVars, closeVars, poolVars, dbVars, tasks, ncalls>>
  /\ last' = NoCall

\* fault: files are taken as they are, a missing down section included
MigParseNoCheck(ok) ==
  /\ mig.pc = "parse"
  /\ IF ~ok THEN MigReject("ReadErr")
     ELSE mig' = [mig EXCEPT !.pc = "acquire",
                    !.migs = ParsedList(mig.listed)]
  /\ UNCHANGED <<delayRelease, unitVars, closeVars, poolVars, dbVars, tasks, ncalls>>
  /\ last' = NoCall

\* Promise.all over fs.readFile: every file is split into up and down, and
\* one file without down rejects the whole set
MigParse(ok) ==
  /\ mig.pc = "parse"
  /\ IF ~ok THEN MigReject("ReadErr")
     ELSE IF \E f \in mig.files : NoDown(f.text) THEN MigReject(ErrNoDown)
     ELSE mig' = [mig EXCEPT !.pc = "acquire",
                    !.migs = ParsedList(mig.listed)]
  /\ UNCHANGED <<delayRelease, unitVars, closeVars, poolVars, dbVars, tasks, ncalls>>
  /\ last' = NoCall

\* this.useAsync(_runMigrationsAsync): the pool hands out the connection
MigAcquire ==
  /\ mig.pc = "acquire"
  /\ pool[1] = "idle"
  /\ pool' = [pool EXCEPT ![1] = "borrowed"]
  /\ acquired' = [acquired EXCEPT ![1] = @ + 1]
  /\ mig' = [mig EXCEPT !.pc = "body"]
  /\ UNCHANGED <<delayRelease, unitVars, closeVars, immQ, released, poolErr, dbVars,
                 tasks, ncalls>>
  /\ last' = NoCall

\* conn.run(CREATE TABLE IF NOT EXISTS ...)
MigCreate ==
  /\ mig.pc = "body"
  /\ IF CallCheck(1, "run", TRUE) = "ok"
     THEN /\ log' = Issue(log, 1, "CREATE")
          /\ mig' = [mig EXCEPT !.pc = "create"]
          /\ UNCHANGED poolVars
     ELSE /\ MigFail(CallCheck(1, "run", TRUE))
          /\ UNCHANGED <<log, acquired>>
  /\ UNCHANGED <<delayRelease, unitVars, closeVars, driver, parent, trx, trxs, nextTrx,
                 tasks, ncalls>>
  /\ last' = NoCall

\* the table exists now; conn.all(SELECT id, name, up, down ... ORDER BY id)
MigCreateDone(ok) ==
  /\ mig.pc = "create"
  /\ IF ok
     THEN /\ log' = Issue(log, 1, "SELECT")
          /\ mig' = [mig EXCEPT !.pc = "select", !.created = TRUE]
          /\ UNCHANGED poolVars
     ELSE /\ MigFail("DriverErr")
          /\ UNCHANGED <<log, acquired>>
  /\ UNCHANGED <<delayRelease, unitVars, closeVars, driver, parent, trx, trxs, nextTrx,
                 tasks, ncalls>>
  /\ last' = NoCall

\* dbMigrations and its descending copy prev
MigSelectDone(ok) ==
  /\ mig.pc = "select"
  /\ IF ok
     THEN /\ mig' = [mig EXCEPT !.pc = "down", !.dbm = AscById(Table),
                       !.prev = Reverse(AscById(Table))]
          /\ UNCHANGED poolVars
     ELSE /\ MigFail("DriverErr")
          /\ UNCHANGED acquired
  /\ UNCHANGED <<delayRelease, unitVars, closeVars, dbVars, tasks, ncalls>>
  /\ last' = NoCall

LastMigration == mig.migs[Len(mig.migs)]

\* fault: force is taken as the first id to revert
RevertFrom(row) ==
  \/ row.id \notin Ids(Range(mig.migs))
  \/ mig.force.kind = "int" /\ row.id >= mig.force.n
  \/ mig.force.kind = "last" /\ row.id = LastMigration.id

\* fault: a row without migration file is not undone
RevertForced(row) ==
  \/ mig.force.kind = "int" /\ row.id > mig.force.n
  \/ mig.force.kind = "last" /\ row.id = LastMigration.id

\* fault: force 'last' is ignored
RevertNoLast(row) ==
  \/ row.id \notin Ids(Range(mig.migs))
  \/ mig.force.kind = "int" /\ row.id > mig.force.n

\* the condition under which the loop over prev undoes a row
Revert(row) ==
  \/ row.id \notin Ids(Range(mig.migs))
  \/ mig.force.kind = "int" /\ row.id > mig.force.n
  \/ mig.force.kind = "last" /\ row.id = LastMigration.id

\* fault: the lowest applied id is taken instead of the highest
LastMigrationIdFirst == IF mig.dbm = <<>> THEN 0 ELSE mig.dbm[1].id

\* the highest applied id left after the loop over prev
LastMigrationId == IF mig.dbm = <<>> THEN 0 ELSE mig.dbm[Len(mig.dbm)].id
\* fault: without force the first file bounds what is applied
MaxMigrationIdFirst ==
  IF mig.force.kind = "int" THEN mig.force.n ELSE mig.migs[1].id

MaxMigrationId ==
  IF mig.force.kind = "int" THEN mig.force.n ELSE LastMigration.id

\* the migrations the loop over the files applies
Pending ==
  SelectSeq(mig.migs,
            LAMBDA m : m.id > LastMigrationId /\ m.id <= MaxMigrationId)

\* conn.transactionAsync(...) called by the function holding connection 1
MigTransaction(imm, pc, cur) ==
  /\ TrxCheck(1, TRUE) = "ok" => nextTrx < MaxTrx
  /\ TrxWrap(1, imm, TRUE)
  /\ IF TrxCheck(1, TRUE) = "ok"
     THEN /\ mig' = [mig EXCEPT !.pc = pc, !.cur = cur, !.x = NewProxy]
          /\ UNCHANGED poolVars
     ELSE /\ MigFail(TrxCheck(1, TRUE))
          /\ UNCHANGED acquired

\* one turn of the loop over prev: undo the row, or leave the loop
MigDownNext(imm) ==
  /\ mig.pc = "down"
  /\ IF mig.prev # <<>> /\ Revert(Head(mig.prev))
     THEN MigTransaction(imm, "downTrx", Head(mig.prev))
     ELSE /\ mig' = [mig EXCEPT !.pc = "up", !.ups = Pending]
          /\ UNCHANGED <<poolVars, dbVars>>
          /\ last' = NoCall
  /\ UNCHANGED <<delayRelease, unitVars, closeVars, tasks, ncalls>>

\* one turn of the loop over the files: apply the next pending migration, or
\* return from the function, which releases the connection
MigUpNext(imm) ==
  /\ mig.pc = "up"
  /\ IF mig.ups # <<>>
     THEN MigTransaction(imm, "upTrx", Head(mig.ups))
     ELSE /\ mig' = [mig EXCEPT !.pc = "done", !.out = Resolved("this")]
          /\ Release(1)
          /\ UNCHANGED <<acquired, dbVars>>
          /\ last' = NoCall
  /\ UNCHANGED <<delayRelease, unitVars, closeVars, tasks, ncalls>>

\* fault: the revert runs the down script of the current file, if there is one
DownOfFile(row) ==
  IF row.id \in Ids(Range(mig.migs))
  THEN (CHOOSE m \in Range(mig.migs) : m.id = row.id).down
  ELSE row.down

\* migration.down of a row of prev: the text selected from the table
DownOfRow(row) == row.down

\* _downAsync / _upAsync start: trx.exec(migration.down) / trx.exec(migration.up)
MigWorkExec ==
  /\ mig.pc \in {"downTrx", "upTrx"}
  /\ trxs[mig.x].pc = "work"
  /\ Len(Via(mig.x)) = 1
  /\ log' = [log EXCEPT ![driver[mig.x]] =
               Append(@, [sql |-> "SCRIPT", via |-> mig.x,
                          script |-> IF mig.pc = "downTrx"
                                     THEN DownOfRow(mig.cur)
                                     ELSE mig.cur.up])]
  /\ UNCHANGED <<delayRelease, unitVars, mig, closeVars, poolVars, driver, parent, trx,
                 trxs, nextTrx, tasks, ncalls>>
  /\ last' = NoCall

\* the statement that follows the script: the row's DELETE or INSERT
RowStmt ==
  IF mig.pc = "downTrx"
  THEN [sql |-> "DELETE", via |-> mig.x, id |-> mig.cur.id]
  ELSE [sql |-> "INSERT", via |-> mig.x, id |-> mig.cur.id,
        name |-> mig.cur.name, up |-> mig.cur.up, down |-> mig.cur.down]

\* the script has run: trx.run(DELETE ...) / trx.run(INSERT ...), or the
\* error leaves the work
MigExecDone(ok) ==
  /\ mig.pc \in {"downTrx", "upTrx"}
  /\ trxs[mig.x].pc = "work"
  /\ Len(Via(mig.x)) = 2
  /\ IF ok
     THEN /\ log' = [log EXCEPT ![driver[mig.x]] = Append(@, RowStmt)]
          /\ UNCHANGED <<delayRelease, unitVars, mig, closeVars, poolVars, driver,
                         parent, trx, trxs, nextTrx, tasks, ncalls>>
          /\ last' = NoCall
     ELSE WorkDone(mig.x, "rejected")

\* the row statement has run (an INSERT of an id the table holds fails): the
\* work returns, or the error leaves it
MigRunDone(ok) ==
  /\ mig.pc \in {"downTrx", "upTrx"}
  /\ trxs[mig.x].pc = "work"
  /\ Len(Via(mig.x)) = 3
  /\ (ok /\ mig.pc = "upTrx") => mig.cur.id \notin Ids(Table)
  /\ WorkDone(mig.x, IF ok THEN "resolved" ELSE "rejected")

\* fault: the loops go on after a failed step
MigTrxSettledGoOn ==
  /\ mig.pc \in {"downTrx", "upTrx"}
  /\ trxs[mig.x].pc = "done"
  /\ IF mig.pc = "downTrx"
     THEN mig' = [mig EXCEPT !.pc = "down", !.prev = Tail(@),
                    !.dbm = SelectSeq(@, LAMBDA r : r.id # mig.cur.id)]
     ELSE mig' = [mig EXCEPT !.pc = "up", !.ups = Tail(@)]
  /\ UNCHANGED <<delayRelease, unitVars, closeVars, poolVars, dbVars, tasks, ncalls>>
  /\ last' = NoCall

\* yield conn.transactionAsync(...) returns, and the loop goes on, or throws
MigTrxSettled ==
  /\ mig.pc \in {"downTrx", "upTrx"}
  /\ trxs[mig.x].pc = "done"
  /\ IF trxs[mig.x].out.st = "resolved"
     THEN /\ IF mig.pc = "downTrx"
             THEN mig' = [mig EXCEPT !.pc = "down", !.prev = Tail(@),
                            !.dbm = SelectSeq(@, LAMBDA r : r.id # mig.cur.id)]
             ELSE mig' = [mig EXCEPT !.pc = "up", !.ups = Tail(@)]
          /\ UNCHANGED poolVars
     ELSE /\ MigFail(trxs[mig.x].out.v)
          /\ UNCHANGED acquired
  /\ UNCHANGED <<delayRelease, unitVars, closeVars, dbVars, tasks, ncalls>>
  /\ last' = NoCall

\* migrate() is called again, with the same files and no force, after a
\* migrate() without force resolved
MigAgain ==
  /\ mig.pc = "done"
  /\ mig.run = 1
  /\ mig.out.st = "resolved"
  /\ mig.force.kind = "none"
  /\ mig' = [StartMig(mig.files, mig.order, mig.force, mig.rows0,
                      TableExists)
               EXCEPT !.run = 2, !.created = mig.created,
                      !.mark = Len(log[1]), !.xmark = nextTrx,
                      !.tmark = Table]
  /\ UNCHANGED <<delayRelease, unitVars, closeVars, poolVars, dbVars, tasks, ncalls>>
  /\ last' = NoCall

NextMig ==
  \/ \E b \in BOOLEAN : MigRead(b)
  \/ \E b \in BOOLEAN : MigParse(b)
  \/ MigAcquire
  \/ MigCreate
  \/ \E b \in BOOLEAN : MigCreateDone(b)
  \/ \E b \in BOOLEAN : MigSelectDone(b)
  \/ \E b \in BOOLEAN : MigDownNext(b)
  \/ \E b \in BOOLEAN : MigUpNext(b)
  \/ \E x \in Proxies, b \in BOOLEAN : BeginDone(x, b)
  \/ MigWorkExec
  \/ \E b \in BOOLEAN : MigExecDone(b)
  \/ \E b \in BOOLEAN : MigRunDone(b)
  \/ \E x \in Proxies, b \in BOOLEAN : CommitDone(x, b)
  \/ \E x \in Proxies, b \in BOOLEAN : RollbackDone(x, b)
  \/ MigTrxSettled
  \/ MigAgain
  \/ ImmediateRelease

SpecMig == InitMig /\ [][NextMig]_vars

\* ---- properties of migrate() ----

Entries == {log[1][i] : i \in 1..Len(log[1])}
Committed(x) == trxs[x].out.st = "resolved"
UsedProxies == (PoolMax + 1)..(PoolMax + nextTrx)
Succeeded == mig.pc = "done" /\ mig.out.st = "resolved"

\* transaction x ran the script and the row statement of one step and
\* committed
Step(x, script, rowsql, id) ==
  /\ Committed(x)
  /\ Len(Via(x)) = 4
  /\ Via(x)[2].sql = "SCRIPT" /\ Via(x)[2].script = script
  /\ Via(x)[3].sql = rowsql /\ Via(x)[3].id = id

\* nothing of the migration with this row was run or changed
Untouched(r) ==
  /\ r \in Table
  /\ \A e \in Entries :
       /\ e.sql \in {"DELETE", "INSERT"} => e.id # r.id
       /\ e.sql = "SCRIPT" => e.script.of # r.id

\* C16 as claimed: the second migrate() issues no SQL at all.
C16_Original ==
  (mig.pc # "none" /\ mig.run = 2) => Len(log[1]) = mig.mark

\* C16 (amended): a second migrate() with the same files and no force, after
\* a first one without force resolved, issues nothing but the CREATE TABLE IF
\* NOT EXISTS and the SELECT of the migrations table: it starts no
\* transaction, runs no script, inserts and deletes no row, and leaves the
\* table as the first run left it.
C16_SecondRunNoMigration ==
  (mig.pc # "none" /\ mig.run = 2) =>
    /\ \A i \in (mig.mark + 1)..Len(log[1]) :
         log[1][i].sql \in {"CREATE", "SELECT"} /\ log[1][i].via = 1
    /\ nextTrx = mig.xmark
    /\ Table = mig.tmark
    /\ mig.pc = "done" => (mig.out.st = "resolved" => Len(log[1]) = mig.mark + 2)

C16_Witness ==
  /\ mig.pc # "none" /\ mig.run = 2
  /\ Succeeded
  /\ Len(log[1]) = mig.mark + 2
  /\ nextTrx = 2
  /\ Ids(Table) = {1, 2}

NoSeparator(text) == \A i \in 1..Len(text) : text[i] \notin Markers

\* C17: when a migration file of the set has no down section, migrate()
\* rejects with the missing-separator error (or the error of reading the
\* files) without asking for a connection: no SQL is issued, no transaction
\* is started and the migrations table is neither created nor changed.
C17_MissingDownRejectsEarly ==
  (mig.pc # "none" /\ \E f \in mig.files : NoSeparator(f.text)) =>
    /\ log[1] = <<>>
    /\ nextTrx = 0
    /\ pool[1] = "idle"
    /\ ~mig.created
    /\ Table = mig.rows0
    /\ mig.pc \in {"read", "parse", "done"}
    /\ mig.pc = "done" => mig.out \in {Rejected(ErrNoDown), Rejected("ReadErr")}

C17_Witness ==
  /\ mig.pc = "done"
  /\ mig.out = Rejected(ErrNoDown)
  /\ \E f \in mig.files : NoSeparator(f.text)
  /\ \E f \in mig.files : ~NoDown(f.text)
  /\ mig.rows0 # {}

\* C18: each apply or revert step is one transaction holding the script and
\* the row statement of the same migration, with COMMIT sent only after both
\* and ROLLBACK the only statement after a failure; no
\* script or row statement runs outside a transaction; while the loops run,
\* migrate()'s list of applied migrations is the table; and a step that fails
\* is the last one: migrate() rejects with its error and starts no further
\* transaction.
C18_StepsAtomicAndFailFast ==
  mig.pc # "none" =>
    /\ \A e \in Entries :
         e.sql \in {"SCRIPT", "INSERT", "DELETE"} => e.via \in Proxies
    /\ \A x \in UsedProxies :
         LET q == Via(x) IN
           /\ Len(q) <= 5
           /\ q[1].sql \in Begins
           /\ Len(q) >= 2 => q[2].sql = "SCRIPT"
           /\ Len(q) >= 3 =>
                \/ q[3].sql = "ROLLBACK" /\ Len(q) = 3
                \/ q[3].sql \in {"INSERT", "DELETE"} /\ q[3].id = q[2].script.of
           /\ Len(q) >= 4 => q[4].sql \in {"COMMIT", "ROLLBACK"}
           /\ Len(q) = 5 => q[4].sql = "COMMIT" /\ q[5].sql = "ROLLBACK"
           /\ Committed(x) => Len(q) = 4 /\ q[4].sql = "COMMIT"
           /\ trxs[x].out.st = "rejected" =>
                /\ x = PoolMax + nextTrx
                /\ mig.pc \in {"downTrx", "upTrx", "done"}
                /\ mig.pc = "done" => mig.out = trxs[x].out
    /\ mig.pc = "down" => mig.dbm = AscById(Table)

C18_Witness ==
  /\ mig.pc = "done"
  /\ mig.out.st = "rejected"
  /\ nextTrx = 2
  /\ Committed(PoolMax + 1)
  /\ trxs[PoolMax + 2].out = mig.out
  /\ Table # mig.rows0

FileIds == Ids(mig.files)

\* C19: with force an integer n no migration with id > n is applied and no
\* applied migration with id <= n that has a file is reverted or changed;
\* when migrate() has resolved every row found with id > n was reverted by
\* its stored down script and its DELETE in one committed transaction, and no
\* row of the table has id > n.
C19_ForceIsUpperBound ==
  (mig.pc # "none" /\ mig.force.kind = "int") =>
    /\ \A e \in Entries : e.sql = "INSERT" => e.id <= mig.force.n
    /\ \A r \in mig.rows0 :
         (r.id <= mig.force.n /\ r.id \in FileIds) => Untouched(r)
    /\ Succeeded =>
         /\ \A r \in mig.rows0 :
              r.id > mig.force.n =>
                \E x \in UsedProxies : Step(x, r.down, "DELETE", r.id)
         /\ \A r \in Table : r.id <= mig.force.n

C19_Witness ==
  /\ Succeeded
  /\ mig.force = [kind |-> "int", n |-> 1]
  /\ Ids(mig.rows0) = {1, 2}
  /\ FileIds = {1, 2}
  /\ Ids(Table) = {1}

MaxFileId == CHOOSE k \in FileIds : \A j \in FileIds : j <= k

\* C20: with force 'last' no applied migration below the highest file id that
\* has a file is reverted or applied again, and when migrate() has resolved
\* and the highest file migration had been applied, it was reverted by its
\* stored down script and then applied again from its file, each in a
\* committed transaction of this call.
C20_ForceLastRedoes ==
  (mig.pc # "none" /\ mig.force.kind = "last" /\ FileIds # {}) =>
    /\ \A r \in mig.rows0 :
         (r.id < MaxFileId /\ r.id \in FileIds) => Untouched(r)
    /\ (Succeeded /\ MaxFileId \in Ids(mig.rows0)) =>
         \E x, y \in UsedProxies :
           /\ x < y
           /\ Step(x, OldRow(MaxFileId).down, "DELETE", MaxFileId)
           /\ Step(y, Script(MaxFileId, <<"UP">>), "INSERT", MaxFileId)
           /\ [id |-> MaxFileId, down |-> Script(MaxFileId, <<"DOWN">>)]
                \in Table

C20_Witness ==
  /\ Succeeded
  /\ mig.force.kind = "last"
  /\ Ids(mig.rows0) = {1, 2}
  /\ FileIds = {1, 2}
  /\ nextTrx = 2
  /\ OldRow(1) \in Table

\* C21 as claimed: after a migrate() without force has resolved, every
\* migration id defined by a file is the id of a row of the migrations table.
C21_Original ==
  (Succeeded /\ mig.force.kind = "none") => FileIds \subseteq Ids(Table)

\* the highest id found applied that has a migration file (0: none)
HighestKept ==
  LET S == Ids(mig.rows0) \cap FileIds
  IN IF S = {} THEN 0 ELSE CHOOSE k \in S : \A j \in S : j <= k

\* C21 (amended): after a migrate() without force has resolved, every file id
\* above the highest id found applied with a file is the id of a row of the
\* table, inserted with the file's down script by a committed transaction
\* that ran the file's up script; a file id below it is in the table exactly
\* if it was found applied, and its row is the one found.
C21_FilesAboveApplied ==
  (Succeeded /\ mig.force.kind = "none") =>
    \A f \in mig.files :
      /\ f.id > HighestKept =>
           /\ Parsed(f).id \in Ids(Table)
           /\ [id |-> f.id, down |-> Parsed(f).down] \in Table
           /\ \E x \in UsedProxies : Step(x, Parsed(f).up, "INSERT", f.id)
      /\ f.id <= HighestKept =>
           /\ f.id \in Ids(Table) <=> f.id \in Ids(mig.rows0)
           /\ \A r \in Table : r.id = f.id => r \in mig.rows0

C21_Witness ==
  /\ Succeeded
  /\ mig.force.kind = "none"
  /\ mig.run = 1
  /\ FileIds = {1, 2}
  /\ Ids(mig.rows0) = {1}
  /\ Ids(Table) = {1, 2}
  /\ nextTrx = 1

Stops(r) ==
  /\ r.id \in FileIds
  /\ ~(mig.force.kind = "int" /\ r.id > mig.force.n)
  /\ ~(mig.force.kind = "last" /\ r.id = MaxFileId)

InMemory == opts.file \in {"", ":memory:"}

Waits(c) == CountSql(log[c], {""})
HandedBack(c) == released[c] + Scheduled(c)

\* C24: use(fn) and useAsync(gen) call the function once, with the acquired
\* connection. An operation that leaves the function's body directly settles
\* as the function's awaitable did (or rejects with what it threw); use()
\* resolves with a return value that is no thenable only after it called
\* wait() on the connection and the driver reported its completion, and
\* rejects when the wait fails. Every way out hands the connection back once.
C24_UseInvokesWaitsReleases ==
  /\ [](\A t \in Tasks :
          tasks[t].fn \in UseKinds =>
            /\ tasks[t].invoked <= 1
            /\ tasks[t].pc \in {"body", "pending"} =>
                 tasks[t].invoked = 1 /\ pool[tasks[t].conn] = "borrowed"
            /\ tasks[t].pc = "pending" =>
                 tasks[t].fn = "use" /\ Waits(tasks[t].conn) >= 1
            /\ tasks[t].out = Resolved("Returned") =>
                 tasks[t].fn = "use" /\ Waits(tasks[t].conn) >= 1
            /\ (tasks[t].pc = "done" /\ tasks[t].conn # Null) =>
                 tasks[t].invoked = 1 /\ HandedBack(tasks[t].conn) >= 1)
  /\ [][\A t \in Tasks :
          (tasks[t].fn \in UseKinds /\ tasks[t].pc # "done"
             /\ tasks'[t].pc = "done" /\ tasks[t].conn # Null) =>
            LET c == tasks[t].conn IN
              /\ released'[c] + Cardinality({i \in 1..Len(immQ') : immQ'[i] = c})
                   = HandedBack(c) + 1
              /\ tasks[t].pc = "body" =>
                   tasks'[t].out \in {Resolved("Result"), Rejected("BodyErr"),
                                      Rejected(ErrTrxActive)}
              /\ tasks[t].pc = "pending" =>
                   tasks'[t].out \in {Resolved("Returned"),
                                      Rejected("DriverErr")}
              /\ tasks'[t].out = Resolved("Returned") =>
                   tasks[t].pc = "pending"]_vars

C24_Witness ==
  \E t \in Tasks :
    /\ tasks[t].fn = "use"
    /\ tasks[t].pc = "done"
    /\ tasks[t].out = Resolved("Returned")
    /\ tasks[t].invoked = 1
    /\ Waits(tasks[t].conn) = 1
    /\ released[tasks[t].conn] = 1

\* ---- prepareParams ----

\* JavaScript values: numbers, undefined, a function, and arrays of values
Scalar(s) == [t |-> s, v |-> <<>>]
Arr(q) == [t |-> "array", v |-> q]
Undefined == Scalar("undefined")
Fn == Scalar("function")
Scalars == {Scalar("0"), Scalar("1"), Undefined}
Truthy(x) == x.t \notin {"0", "undefined", "null"}

RECURSIVE ListsTo(_, _)
ListsTo(S, n) ==
  IF n = 0 THEN {<<>>}
  ELSE LET P == ListsTo(S, n - 1)
       IN P \cup {Append(q, x) : q \in {r \in P : Len(r) = n - 1}, x \in S}

ErrNoCallback == "Callback argument is required"
Return(x) == [threw |-> "none", value |-> x]
Throw(m) == [threw |-> m, value |-> Undefined]

\* fault: the arguments are always bound as a list
PrepareParamsNoUnwrap(args, requireCallback) ==
  IF requireCallback /\ Len(args) < 1 THEN Throw(ErrNoCallback)
  ELSE LET callback == IF requireCallback THEN args[Len(args)] ELSE Undefined
           rest == IF requireCallback THEN SubSeq(args, 1, Len(args) - 1)
                   ELSE args
       IN IF Truthy(callback) THEN Return(Arr(<<Arr(rest), callback>>))
          ELSE Return(Arr(rest))

\* prepareParams(args, requireCallback): args.pop() takes the callback, one
\* remaining argument is the parameters, otherwise the remaining list is
\* and a falsy callback is left out of the result
PrepareParams(args, requireCallback) ==
  IF requireCallback /\ Len(args) < 1 THEN Throw(ErrNoCallback)
  ELSE LET callback == IF requireCallback THEN args[Len(args)] ELSE Undefined
           rest == IF requireCallback THEN SubSeq(args, 1, Len(args) - 1)
                   ELSE args
           params == IF Len(rest) = 1 THEN rest[1] ELSE Arr(rest)
       IN IF Truthy(callback) THEN Return(Arr(<<params, callback>>))
          ELSE Return(params)

\* the state of every variable but prep, stream and runner in the
\* specifications of the helpers: a pool that lent connection 1 to a caller
Lent ==
  /\ delayRelease \in BOOLEAN
  /\ pool = [c \in Conns |-> IF c = 1 THEN "borrowed" ELSE "none"]
  /\ immQ = <<>>
  /\ acquired = [c \in Conns |-> IF c = 1 THEN 1 ELSE 0]
  /\ released = [c \in Conns |-> 0]
  /\ poolErr = FALSE
  /\ driver = [d \in Dbs |-> IF d \in Conns THEN d ELSE Null]
  /\ parent = [d \in Dbs |-> Null]
  /\ trx = [d \in Dbs |-> Null]
  /\ trxs = [x \in Proxies |-> NoTrx]
  /\ nextTrx = 0
  /\ log = [c \in Conns |-> <<>>]
  /\ tasks = [t \in Tasks |-> IF t = 1
                THEN [NoTask EXCEPT !.fn = "use", !.pc = "body", !.conn = 1,
                                    !.invoked = 1]
                ELSE NoTask]
  /\ ncalls = 0
  /\ last = NoCall
  /\ draining = FALSE
  /\ closeSt = NoClose
  /\ closes = [c \in Conns |-> 0]
  /\ mig = NoMig
  /\ opts = FileOpts
  /\ make = NoMake

lentVars == <<delayRelease, pool, immQ, acquired, released, poolErr, driver,
              parent, trx, trxs, nextTrx, log, tasks, ncalls, last, draining,
              closeSt, closes, mig, opts, make>>

\* a caller is about to pass the values of list to a method, once one by one
\* and once as one array, in both cases followed by the callback if the
\* method takes one
InitPrep ==
  /\ Lent
  /\ stream = NoStream
  /\ runner = NoRunner
  /\ \E list \in ListsTo(Scalars \cup {Arr(<<Scalar("1")>>)}, MaxArgs),
        withCb \in BOOLEAN :
       prep = [pc |-> "init", list |-> list, withCb |-> withCb,
               flat |-> Return(Undefined), aggregate |-> Return(Undefined),
               calls |-> {}]

\* run(sql, a, b, ...) / each(sql, a, b, ..., callback)
PrepFlat ==
  /\ prep.pc # "none"
  /\ "flat" \notin prep.calls
  /\ prep' = [prep EXCEPT
       !.flat = PrepareParams(IF prep.withCb THEN Append(prep.list, Fn)
                              ELSE prep.list, prep.withCb),
       !.calls = @ \cup {"flat"}]
  /\ UNCHANGED <<lentVars, stream, runner>>

\* run(sql, [a, b, ...]) / each(sql, [a, b, ...], callback)
PrepAggregate ==
  /\ prep.pc # "none"
  /\ "aggregate" \notin prep.calls
  /\ prep' = [prep EXCEPT
       !.aggregate = PrepareParams(IF prep.withCb
                                   THEN <<Arr(prep.list), Fn>>
                                   ELSE <<Arr(prep.list)>>, prep.withCb),
       !.calls = @ \cup {"aggregate"}]
  /\ UNCHANGED <<lentVars, stream, runner>>

NextPrep == PrepFlat \/ PrepAggregate
SpecPrep == InitPrep /\ [][NextPrep]_vars

\* the parameters a result of prepareParams binds
Bound(r, withCb) == IF withCb THEN r.value.v[1] ELSE r.value

\* C26: for a list of values of length other than one, passing the values one
\* by one binds the same ordered sequence as passing them as one array, which
\* is the list itself; one value alone is bound as itself; the call with one
\* array always binds that array. With a callback the result pairs the
\* parameters with it.
C26_FlatEqualsAggregate ==
  (prep.pc # "none" /\ prep.calls = {"flat", "aggregate"}) =>
    /\ prep.flat.threw = "none" /\ prep.aggregate.threw = "none"
    /\ Bound(prep.aggregate, prep.withCb) = Arr(prep.list)
    /\ Len(prep.list) # 1 =>
         Bound(prep.flat, prep.withCb) = Bound(prep.aggregate, prep.withCb)
    /\ Len(prep.list) = 1 => Bound(prep.flat, prep.withCb) = prep.list[1]
    /\ prep.withCb =>
         /\ prep.flat.value.t = "array" /\ Len(prep.flat.value.v) = 2
         /\ prep.flat.value.v[2] = Fn
         /\ prep.aggregate.value.v[2] = Fn

C26_Witness ==
  /\ prep.pc # "none"
  /\ prep.calls = {"flat", "aggregate"}
  /\ Len(prep.list) = 2
  /\ prep.list[1] # prep.list[2]
  /\ prep.withCb
  /\ prep.flat = prep.aggregate

\* ---- each() on a Database and on a Statement ----

\* what the row callback can throw: Error objects, and the values undefined
\* and null (a throw statement takes any value)
Thrown == {"Err1", "Err2", "undefined", "null"}
ErrNotFunction == "TypeError: callback is not a function"
ErrNotIterable == "TypeError: undefined is not a function or its return value is not iterable"

Threw(m) == [st |-> "threw", v |-> m]

\* const [params, callback] = value: the first two elements of an array,
\* undefined where it has none
Element(x, k) == IF k <= Len(x.v) THEN x.v[k] ELSE Undefined

\* each() is called on a Database or a Statement with the values args after
\* the SQL text
InitEach ==
  /\ Lent
  /\ prep = NoPrep
  /\ runner = NoRunner
  /\ \E on \in {"Database", "Statement"},
        args \in ListsTo({Scalar("0"), Scalar("1"), Fn}, MaxArgs) :
       stream = [pc |-> "call", on |-> on, args |-> args,
                 params |-> Undefined, callback |-> Undefined,
                 error |-> "null", calls |-> <<>>, rows |-> 0, drv |-> 0,
                 doneErr |-> FALSE, out |-> NoOut]

\* Database.each / Statement.each up to the driver call: the guard check (of
\* the Database), prepareParams(args, true), the destructuring of its result
EachCall ==
  /\ stream.pc = "call"
  /\ LET chk == IF stream.on = "Database" THEN TrxCheck(1, FALSE) ELSE "ok"
         r == PrepareParams(stream.args, TRUE)
     IN stream' =
          IF chk # "ok"
          THEN [stream EXCEPT !.pc = "done", !.out = Threw(chk)]
          ELSE IF r.threw # "none"
          THEN [stream EXCEPT !.pc = "done", !.out = Threw(r.threw)]
          ELSE IF r.value.t # "array"
          THEN [stream EXCEPT !.pc = "done", !.out = Threw(ErrNotIterable)]
          ELSE [stream EXCEPT !.pc = "rows", !.drv = @ + 1,
                              !.params = Element(r.value, 1),
                              !.callback = Element(r.value, 2)]
  /\ UNCHANGED <<lentVars, prep, runner>>

\* the driver delivers a row to cb / each_fn: nothing happens when an error
\* is kept (error !== null); otherwise the callback is called and what it
\* throws is kept (calling something that is no function throws a TypeError)
EachRow(how) ==
  /\ stream.pc = "rows"
  /\ stream.rows < MaxRows
  /\ IF stream.error # "null"
     THEN stream' = [stream EXCEPT !.rows = @ + 1]
     ELSE LET res == IF stream.callback = Fn THEN how ELSE ErrNotFunction
          IN stream' = [stream EXCEPT
                          !.rows = @ + 1,
                          !.calls = Append(@, res),
                          !.error = IF res \in {"ok", "null"} THEN @ ELSE res]
  /\ UNCHANGED <<lentVars, prep, runner>>

\* the driver calls done / done_fn: its own error, else the kept error if it
\* is truthy, else the number of rows
EachDone(err) ==
  /\ stream.pc = "rows"
  /\ stream' = [stream EXCEPT
       !.pc = "done",
       !.doneErr = err,
       !.out = IF err THEN Rejected("DriverErr")
               ELSE IF stream.error \notin {"null", "undefined"}
               THEN Rejected(stream.error)
               ELSE Resolved(stream.rows)]
  /\ UNCHANGED <<lentVars, prep, runner>>

NextEach ==
  \/ EachCall
  \/ \E how \in {"ok"} \cup Thrown : EachRow(how)
  \/ \E err \in BOOLEAN : EachDone(err)

SpecEach == InitEach /\ [][NextEach]_vars

\* the invocations of the row callback that threw
ThrewAt == {k \in 1..Len(stream.calls) : stream.calls[k] # "ok"}
FirstThrown == stream.calls[CHOOSE k \in ThrewAt : \A j \in ThrewAt : k <= j]
CallbackGiven ==
  Len(stream.args) >= 1 /\ stream.args[Len(stream.args)] = Fn

\* C25: in each() with a row callback, no invocation of the callback follows
\* one that threw; when the driver signals completion without an error of its
\* own after the callback threw, the operation rejects with the first value
\* thrown; and it resolves, with the number of rows, only if no invocation
\* threw.
C25_CallbackErrorSurfaces ==
  (stream.pc # "none" /\ CallbackGiven) =>
    /\ \A k \in ThrewAt : k = Len(stream.calls)
    /\ (stream.pc = "done" /\ ~stream.doneErr /\ ThrewAt # {}) =>
         stream.out = Rejected(FirstThrown)
    /\ stream.out.st = "resolved" =>
         ThrewAt = {} /\ stream.out.v = stream.rows

\* C27: an each() call without row callback makes no driver call and ends
\* with an error, whatever parameters were passed.
C27_MissingCallbackFails ==
  (stream.pc # "none" /\ ~CallbackGiven) =>
    /\ stream.drv = 0
    /\ stream.pc = "done" => stream.out.st \in {"threw", "rejected"}

\* ---- asyncRunner ----

\* what a procedure does when it is started or resumed: yield a value that
\* is no thenable, yield a promise, return, throw an error of its own, or
\* (resumed by throw) not catch the error thrown into it
Moves == {"yieldValue", "yieldPromise", "return", "throw", "uncaught"}

NoAwait == [st |-> "none", v |-> 0]

\* runAsync(fn, ...args): the generator exists, step('next') is about to run
InitRunner ==
  /\ Lent
  /\ prep = NoPrep
  /\ stream = NoStream
  /\ runner = [pc |-> "step", yields |-> 0, aw |-> NoAwait,
               resumes |-> <<>>, gen |-> [how |-> "none", v |-> 0],
               settles |-> 0, out |-> NoOut]

\* fault: a rejection is handed to the procedure as a value
KeyNext(aw) == "next"

\* how step is called: step('next') first, then from the callbacks given to
\* Promise.resolve(value).then
KeyOf(aw) == IF aw.st = "rejected" THEN "throw" ELSE "next"

\* step(key, arg): the procedure runs up to its next yield, its return or a
\* throw; the outcome resolves or rejects the outer promise, or the yielded
\* value is awaited
RunnerStep(move) ==
  /\ runner.pc = "step" \/ (runner.pc = "waiting" /\ runner.aw.st # "pending")
  /\ move = "uncaught" => KeyOf(runner.aw) = "throw"
  /\ move \in {"yieldValue", "yieldPromise"} => runner.yields < MaxYields
  /\ LET key == KeyOf(runner.aw)
         resumed == [runner EXCEPT
                       !.resumes = Append(@, [key |-> key, aw |-> runner.aw])]
         n == runner.yields + 1
     IN runner' =
          CASE move = "yieldValue" ->
                 [resumed EXCEPT !.pc = "waiting", !.yields = n,
                                 !.aw = [st |-> "resolved", v |-> n]]
            [] move = "yieldPromise" ->
                 [resumed EXCEPT !.pc = "waiting", !.yields = n,
                                 !.aw = [st |-> "pending", v |-> n]]
            [] move = "return" ->
                 [resumed EXCEPT !.pc = "done", !.settles = @ + 1,
                                 !.gen = [how |-> "returned", v |-> n],
                                 !.out = Resolved(n)]
            [] move = "throw" ->
                 [resumed EXCEPT !.pc = "done", !.settles = @ + 1,
                                 !.gen = [how |-> "threw", v |-> n],
                                 !.out = Rejected(n)]
            [] OTHER ->
                 [resumed EXCEPT !.pc = "done", !.settles = @ + 1,
                                 !.gen = [how |-> "threw", v |-> - runner.aw.v],
                                 !.out = Rejected(- runner.aw.v)]
  /\ UNCHANGED <<lentVars, prep, stream>>

\* the promise the procedure yielded resolves (with its number as value) or
\* rejects (with the negative number as error)
AwaitSettles(ok) ==
  /\ runner.pc = "waiting"
  /\ runner.aw.st = "pending"
  /\ runner' = [runner EXCEPT
                  !.aw = IF ok THEN [st |-> "resolved", v |-> runner.aw.v]
                         ELSE [st |-> "rejected", v |-> runner.aw.v]]
  /\ UNCHANGED <<lentVars, prep, stream>>

NextRunner ==
  \/ \E move \in Moves : RunnerStep(move)
  \/ \E ok \in BOOLEAN : AwaitSettles(ok)

SpecRunner == InitRunner /\ [][NextRunner]_vars

\* C28: the procedure is started once and then resumed only when the
\* awaitable it last yielded has settled, by next for a resolution and by
\* throw for a rejection, in the order of its yields; a rejection it catches
\* lets it go on; the outer promise is settled once, when the procedure
\* returns (resolved with the return value) or lets an error escape
\* (rejected with that error), and not before.
C28_RunnerStepsSequentially ==
  runner.pc # "none" =>
    /\ \A k \in 1..Len(runner.resumes) :
         LET r == runner.resumes[k] IN
           IF k = 1 THEN r.aw = NoAwait /\ r.key = "next"
           ELSE /\ r.aw.st \in {"resolved", "rejected"}
                /\ r.aw.v = k - 1
                /\ r.key = "throw" <=> r.aw.st = "rejected"
    /\ runner.settles <= 1
    /\ runner.settles = 1 <=> runner.pc = "done"
    /\ runner.pc = "done" <=> runner.gen.how # "none"
    /\ runner.pc # "done" => runner.out = NoOut
    /\ runner.gen.how = "returned" => runner.out = Resolved(runner.gen.v)
    /\ runner.gen.how = "threw" => runner.out = Rejected(runner.gen.v)

C28_Witness ==
  /\ runner.pc = "done"
  /\ Len(runner.resumes) = 3
  /\ runner.resumes[2].key = "throw"
  /\ runner.resumes[3].key = "next"
  /\ runner.out.st = "resolved"

\* ---- delayRelease ----

\* pool-level operation t ends in this step, having held a connection
Finishes(t) ==
  tasks[t].pc # "done" /\ tasks'[t].pc = "done" /\ tasks[t].conn # Null
ScheduledNext(c) == Cardinality({i \in 1..Len(immQ') : immQ'[i] = c})

\* C29: in the step in which a pool-level operation ends, with delayRelease
\* on its connection stays lent and its hand-back is queued for a later
\* tick (so nothing waiting for a connection can get this one in that step),
\* with delayRelease off the pool gets the connection back in that same
\* step; the pool is given a connection back only by such a step or by the
\* queued callback of one, once per operation; and nothing is ever queued
\* when delayRelease is off.
C29_DelayedReleaseNextTick ==
  /\ [](~delayRelease => immQ = <<>>)
  /\ [][\A c \in Conns :
          /\ (\E t \in Tasks : Finishes(t) /\ tasks[t].conn = c) =>
               IF delayRelease
               THEN /\ pool[c] = "borrowed" /\ pool'[c] = "borrowed"
                    /\ released'[c] = released[c]
                    /\ immQ' = Append(immQ, c)
               ELSE /\ pool[c] = "borrowed" /\ pool'[c] = "idle"
                    /\ released'[c] = released[c] + 1
                    /\ immQ' = immQ
          /\ released'[c] + ScheduledNext(c) # released[c] + Scheduled(c) =>
               /\ \E t \in Tasks : Finishes(t) /\ tasks[t].conn = c
               /\ released'[c] + ScheduledNext(c)
                    = released[c] + Scheduled(c) + 1
          /\ (delayRelease /\ released'[c] # released[c]) =>
               /\ immQ # <<>> /\ Head(immQ) = c /\ immQ' = Tail(immQ)
               /\ released'[c] = released[c] + 1
               /\ pool[c] = "borrowed" /\ pool'[c] = "idle"
               /\ tasks' = tasks]_vars

\* the operation has ended, close() waits for a connection, and the
\* connection is still lent: its hand-back is queued
C29_Witness ==
  /\ delayRelease
  /\ closeSt.pc = "acquiring" /\ closeSt.pending > 0
  /\ \E t \in Tasks :
       /\ tasks[t].pc = "done" /\ tasks[t].conn # Null
       /\ pool[tasks[t].conn] = "borrowed"
       /\ immQ = <<tasks[t].conn>>
       /\ released[tasks[t].conn] = 0

\* ---- order of the steps of migrate() ----

\* the scripts and row statements connection 1 received, in order; a script
\* is a revert when it is the stored down script of a row found applied
StepsAt == {i \in 1..Len(log[1]) : log[1][i].sql \in {"SCRIPT", "DELETE", "INSERT"}}
IsRevert(e) ==
  \/ e.sql = "DELETE"
  \/ e.sql = "SCRIPT" /\ \E r \in mig.rows0 : r.down = e.script
IdOf(e) == IF e.sql = "SCRIPT" THEN e.script.of ELSE e.id

\* C30: within one migrate() call no revert step follows an apply step;
\* the reverts run in strictly descending order of id and the applies in
\* strictly ascending order, in whatever order the directory listing gave
\* the files; a row is reverted only after every row found with a higher id
\* was reverted in a committed transaction, and never at or below a row that
\* matches no revert condition.
C30_RevertsThenAppliesInOrder ==
  (mig.pc # "none" /\ mig.run = 1) =>
    /\ \A i, j \in StepsAt :
         LET a == log[1][i]
             b == log[1][j]
         IN i < j =>
              /\ ~(~IsRevert(a) /\ IsRevert(b))
              /\ (IsRevert(a) /\ IsRevert(b)) =>
                   \/ IdOf(a) > IdOf(b)
                   \/ IdOf(a) = IdOf(b) /\ a.via = b.via
              /\ (~IsRevert(a) /\ ~IsRevert(b)) =>
                   \/ IdOf(a) < IdOf(b)
                   \/ IdOf(a) = IdOf(b) /\ a.via = b.via
    /\ \A i \in StepsAt :
         IsRevert(log[1][i]) =>
           \A q \in mig.rows0 :
             /\ q.id > IdOf(log[1][i]) =>
                  \E x \in UsedProxies :
                    x < log[1][i].via /\ Step(x, q.down, "DELETE", q.id)
             /\ q.id >= IdOf(log[1][i]) => ~Stops(q)

C30_Witness ==
  /\ Succeeded
  /\ mig.run = 1
  /\ mig.order = <<2, 1>>
  /\ mig.force = [kind |-> "int", n |-> 2]
  /\ Ids(mig.rows0) = {}
  /\ nextTrx = 2
  /\ Ids(Table) = {1, 2}

\* ---- what a revert runs and what an apply stores ----

\* C31: a revert runs, in the transaction of its DELETE, the down script of
\* the row found in the migrations table, whether the file of that id now
\* has another down script or is gone; an apply runs the up script of the
\* file and, in the same transaction, inserts a row with the id, name, up
\* and down text of the file, which is the row the table holds once the
\* transaction has committed.
C31_RevertRunsStoredDown ==
  mig.pc # "none" =>
    \A x \in UsedProxies :
      LET q == Via(x) IN
        Len(q) >= 3 /\ q[3].sql \in {"DELETE", "INSERT"} =>
          IF q[3].sql = "DELETE"
          THEN \E r \in mig.rows0 : r.id = q[3].id /\ q[2].script = r.down
          ELSE \E f \in mig.files :
                 /\ f.id = q[3].id
                 /\ q[2].script = Parsed(f).up
                 /\ q[3].name = Parsed(f).name
                 /\ q[3].up = Parsed(f).up
                 /\ q[3].down = Parsed(f).down
                 /\ (Committed(x) /\ \A y \in UsedProxies : y <= x) =>
                      [id |-> f.id, down |-> Parsed(f).down] \in Table

\* row 2 was reverted by the script stored with it while file 2 holds
\* another down script, and was applied again from the file
C31_Witness ==
  /\ Succeeded
  /\ mig.force.kind = "last"
  /\ FileIds = {1, 2}
  /\ Ids(mig.rows0) = {1, 2}
  /\ Step(PoolMax + 1, OldRow(2).down, "DELETE", 2)
  /\ Step(PoolMax + 2, Script(2, <<"UP">>), "INSERT", 2)
  /\ OldRow(2).down # Parsed(FileOf(2)).down

\* ---- Sqlite._create ----

\* the outcome of one creation, per driver handle: not started, resolved with
\* the connection, or rejected with the error of the step named by at and i
NoOutcome == [st |-> "none", at |-> "none", i |-> 0]
CreateOk == [st |-> "ok", at |-> "none", i |-> 0]
CreateFailed(at, i) == [st |-> "failed", at |-> at, i |-> i]

\* where _createAsync suspends next: pc is the awaited step and i the index
\* of the extension being loaded
Yield(pc, i) == [pc |-> pc, i |-> i]

\* fault: the journal mode option is ignored
AfterForeignKeysNoWal(m) == Yield("return", 0)

\* _createAsync after the foreign keys statement
AfterForeignKeys(m) ==
  IF m.wal THEN Yield("wal", 0) ELSE Yield("return", 0)

\* _createAsync after the extension loop
AfterLoop(m) ==
  IF m.fk THEN Yield("fk", 0) ELSE AfterForeignKeys(m)

\* the extension loop about to take extension i of this._sqlite_extn
LoopAt(m, i) ==
  IF i <= m.exts THEN Yield("ext", i) ELSE AfterLoop(m)

\* the step _createAsync goes to once the awaited one has succeeded
Continue(m) ==
  CASE m.pc = "open" -> LoopAt(m, 1)
    [] m.pc = "ext" -> LoopAt(m, m.i + 1)
    [] m.pc = "fk" -> AfterForeignKeys(m)
    [] m.pc = "wal" -> Yield("return", 0)

SqlForeignKeys == "PRAGMA foreign_keys = ON;"
SqlWal == "PRAGMA journal_mode = WAL;"

\* connection.driver.loadExtension(extensionPath, callback)
LoadExtension(h, i) == [sql |-> "loadExtension", via |-> h, ext |-> i]

\* the call _createAsync makes on handle h when it reaches step y;
\* connection.exec passes _trxCheck before it reaches the driver
Calls(lg, h, y) ==
  CASE y.pc = "ext" -> [lg EXCEPT ![h] = Append(@, LoadExtension(h, y.i))]
    [] y.pc = "fk" -> IF CallCheck(h, "exec", TRUE) = "ok"
                      THEN Issue(lg, h, SqlForeignKeys) ELSE lg
    [] y.pc = "wal" -> IF CallCheck(h, "exec", TRUE) = "ok"
                       THEN Issue(lg, h, SqlWal) ELSE lg
    [] y.pc = "return" -> lg

\* the handle of the next creation
Fresh(h) ==
  /\ make.out[h].st = "none"
  /\ \A b \in Conns : b < h => make.out[b].st # "none"

\* the pool calls the factory: new sqlite3.Database(filename, callback), for
\* its minimum at first, for the waiting caller after a failed creation
CreateStart(h) ==
  /\ make.pc = "idle"
  /\ Fresh(h)
  /\ Cardinality(Live) < opts.max
  /\ Cardinality(Live) < PoolMinimum
  /\ h = 1 \/ Waiting # {}
  /\ make' = [make EXCEPT !.pc = "open", !.h = h, !.i = 0]
  /\ UNCHANGED <<delayRelease, opts, stream, prep, runner, mig, closeVars,
                 poolVars, dbVars, tasks, ncalls, last>>

\* the callback of the awaited step is called with an error: the promise is
\* rejected, the generator throws and _create rejects with that error
StepFails ==
  /\ make.pc \in {"open", "ext", "fk", "wal"}
  /\ make' = [make EXCEPT !.pc = "idle",
                          !.out[make.h] = CreateFailed(make.pc, make.i)]
  /\ UNCHANGED <<delayRelease, opts, stream, prep, runner, mig, closeVars,
                 poolVars, dbVars, tasks, ncalls, last>>

\* the callback of the awaited step is called without an error: the handle
\* is open once the open callback came, and _createAsync runs to its next
\* yield, or returns the connection, which the pool then counts
StepSucceeds ==
  /\ make.pc \in {"open", "ext", "fk", "wal"}
  /\ LET y == Continue(make)
         h == make.h
     IN /\ make' = [make EXCEPT
                      !.pc = IF y.pc = "return" THEN "idle" ELSE y.pc,
                      !.i = y.i,
                      !.open = IF make.pc = "open" THEN @ \cup {h} ELSE @,
                      !.out[h] = IF y.pc = "return" THEN CreateOk ELSE @]
        /\ log' = Calls(log, h, y)
        /\ pool' = IF y.pc = "return" THEN [pool EXCEPT ![h] = "idle"]
                   ELSE pool
  /\ UNCHANGED <<delayRelease, opts, stream, prep, runner, mig, closeVars,
                 immQ, acquired, released, poolErr, driver, parent, trx, trxs,
                 nextTrx, tasks, ncalls, last>>

\* a pool just constructed, with a caller waiting in acquire, whose factory
\* has any of the options loadExtensions, foreignKeys and walMode
InitCreate ==
  /\ delayRelease \in BOOLEAN
  /\ pool = [c \in Conns |-> "none"]
  /\ immQ = <<>>
  /\ acquired = [c \in Conns |-> 0]
  /\ released = [c \in Conns |-> 0]
  /\ poolErr = FALSE
  /\ driver = [d \in Dbs |-> IF d \in Conns THEN d ELSE Null]
  /\ parent = [d \in Dbs |-> Null]
  /\ trx = [d \in Dbs |-> Null]
  /\ trxs = [x \in Proxies |-> NoTrx]
  /\ nextTrx = 0
  /\ log = [c \in Conns |-> <<>>]
  /\ tasks = [t \in Tasks |-> IF t = 1
                THEN [NoTask EXCEPT !.fn = "use", !.pc = "acquiring"]
                ELSE NoTask]
  /\ ncalls = 0
  /\ last = NoCall
  /\ draining = FALSE
  /\ closeSt = NoClose
  /\ closes = [c \in Conns |-> 0]
  /\ mig = NoMig
  /\ opts = FileOpts
  /\ stream = NoStream
  /\ prep = NoPrep
  /\ runner = NoRunner
  /\ \E n \in 0..MaxExt, fk \in BOOLEAN, wal \in BOOLEAN :
       make = [pc |-> "idle", h |-> 0, i |-> 0, exts |-> n, fk |-> fk,
               wal |-> wal, open |-> {}, out |-> [c \in Conns |-> NoOutcome]]

NextCreate ==
  \/ \E h \in Conns : CreateStart(h)
  \/ StepFails
  \/ StepSucceeds

SpecCreate == InitCreate /\ [][NextCreate]_vars

\* the calls a complete creation makes on its handle, from the options
ExtCalls(h, n) == [k \in 1..n |-> LoadExtension(h, k)]
Configured(h) ==
  ExtCalls(h, make.exts)
    \o (IF make.fk THEN <<Stmt(h, SqlForeignKeys)>> ELSE <<>>)
    \o (IF make.wal THEN <<Stmt(h, SqlWal)>> ELSE <<>>)

\* the position in Configured(h) of the call of step (at, i)
CallOf(at, i) ==
  CASE at = "open" -> 0
    [] at = "ext" -> i
    [] at = "fk" -> make.exts + 1
    [] at = "wal" -> make.exts + (IF make.fk THEN 2 ELSE 1)

\* C32: the factory hands a connection to the pool only after the handle
\* opened and then every configured extension, in configured order and one at
\* a time, PRAGMA foreign_keys and PRAGMA journal_mode = WAL succeeded; when
\* a step fails the creation fails with the error of that step, no later
\* step is run on the handle, and the pool does not count the handle.
C32_CreateStepsInOrder ==
  make.pc # "none" =>
    \A h \in Conns :
      /\ Len(log[h]) <= Len(Configured(h))
      /\ log[h] = SubSeq(Configured(h), 1, Len(log[h]))
      /\ make.out[h].st = "none" /\ make.h # h => log[h] = <<>>
      /\ make.pc # "idle" /\ make.h = h =>
           /\ pool[h] = "none"
           /\ make.out[h].st = "none"
           /\ Len(log[h]) = CallOf(make.pc, make.i)
           /\ make.pc = "open" <=> h \notin make.open
      /\ pool[h] # "none" <=> make.out[h].st = "ok"
      /\ make.out[h].st = "ok" =>
           /\ h \in make.open
           /\ log[h] = Configured(h)
      /\ make.out[h].st = "failed" =>
           /\ pool[h] = "none"
           /\ Len(log[h]) = CallOf(make.out[h].at, make.out[h].i)
           /\ make.out[h].at = "open" <=> h \notin make.open

\* the first creation failed at its second extension, the second creation
\* loaded both, ran both statements and gave the pool its connection
C32_Witness ==
  /\ make.pc = "idle"
  /\ make.exts = 2 /\ make.fk /\ make.wal
  /\ make.out[1] = CreateFailed("ext", 2)
  /\ Len(log[1]) = 2
  /\ pool[1] = "none"
  /\ make.out[2] = CreateOk
  /\ Len(log[2]) = 4
  /\ pool[2] = "idle"

\* C39: a creation that failed after its handle had opened has closed the
\* handle, so that the open handles are the connections the pool counts.
C39_FailedCreationClosesHandle ==
  make.pc = "idle" => make.open = Live

\* ---- properties of the transaction interval ----

\* the positions in the log of handle h of the BEGIN and of the COMMIT and
\* ROLLBACK statements of transaction x
BeginsOf(x) ==
  {i \in 1..Len(log[driver[x]]) :
     /\ log[driver[x]][i].via = x
     /\ log[driver[x]][i].sql \in {"BEGIN", "BEGIN IMMEDIATE"}}
EndsOf(x) ==
  {i \in 1..Len(log[driver[x]]) :
     /\ log[driver[x]][i].via = x
     /\ log[driver[x]][i].sql \in {"COMMIT", "ROLLBACK"}}

\* the last position of the interval of transaction x so far: its ROLLBACK,
\* or its COMMIT when that succeeded, or the end of the log while it runs
IntervalEnd(x) ==
  IF trxs[x].pc = "done" /\ EndsOf(x) # {}
  THEN CHOOSE i \in EndsOf(x) : \A j \in EndsOf(x) : j <= i
  ELSE Len(log[driver[x]])

KeptProxyCall(x, op, hasCb) ==
  /\ x \in Proxies
  /\ trxs[x].pc = "done"
  /\ ncalls < MaxCalls
  /\ op = "each" \/ hasCb
  /\ ncalls' = ncalls + 1
  /\ LET chk == CallCheck(x, op, hasCb) IN
       /\ last' = [op |-> "call", d |-> x, err |-> chk, guard |-> trx[x]]
       /\ log' = IF chk = "ok" THEN Issue(log, x, SqlOf(op)) ELSE log
  /\ UNCHANGED <<delayRelease, unitVars, mig, closeVars, poolVars, driver,
                 parent, trx, trxs, nextTrx, tasks>>

NextKept ==
  \/ NextDb
  \/ \E x \in Proxies, op \in ConnOps, b \in BOOLEAN : KeptProxyCall(x, op, b)

\* a caller holding connection 1 that keeps the proxies its works were given
SpecKept == InitDb /\ [][NextKept]_vars

\* C34: once the transaction of a proxy has committed or rolled back, a call
\* of run/get/all/exec/each/prepare on the proxy fails and sends nothing to
\* the driver.
C34_EndedProxyUnusable ==
  /\ last.op = "call" /\ last.d \in Proxies /\ trxs[last.d].pc = "done" =>
       last.err # "ok"
  /\ \A x \in UsedProxies :
       trxs[x].pc = "done" /\ EndsOf(x) # {} =>
         \A i \in 1..Len(log[driver[x]]) :
           log[driver[x]][i].via = x => i <= IntervalEnd(x)

\* ---- the end of use()/useAsync() while the caller's function works ----

\* a caller holding connection 1 whose function calls the connection, starts
\* transactions on it and returns, throws or has its awaitable settled at any
\* moment, with _acquireRelease handing the connection back
NextUse ==
  \/ NextDb
  \/ \E t \in Tasks : BodyReturnValue(t)
  \/ \E t \in Tasks, b \in BOOLEAN : BodySettle(t, b)
  \/ \E t \in Tasks, b \in BOOLEAN : Settle(t, b)
  \/ ImmediateRelease

SpecUse == InitDb /\ [][NextUse]_vars

\* the connections _acquireRelease has handed to _release
HandedBackConns ==
  {c \in Conns : pool[c] = "idle" \/ \E i \in 1..Len(immQ) : immQ[i] = c}

\* C35: a connection handed back to the pool has a clear transaction guard
\* and no transaction started on it is still running.
C35_HandedBackGuardClear ==
  \A c \in HandedBackConns :
    /\ trx[c] = Null
    /\ \A x \in UsedProxies : parent[x] = c => trxs[x].pc = "done"

\* ---- pool-level operations called from inside a caller's function ----

\* the function of task t runs: the body of use()/useAsync(), or the work of
\* the transaction a pool-level transaction() started
Working(t) ==
  \/ tasks[t].pc = "body"
  \/ /\ tasks[t].pc = "pending"
     /\ tasks[t].await # Null
     /\ trxs[tasks[t].await].pc = "work"

InnerPending(t) == tasks[t].inner \in {"acquiring", "acquired", "running"}

\* the function of task t calls a pool-level run() and awaits its future:
\* _acquireRelease asks the pool for a connection
InnerCall(t) ==
  /\ Working(t)
  /\ tasks[t].inner = "none"
  /\ ~draining
  /\ tasks' = [tasks EXCEPT ![t].inner = "acquiring"]
  /\ UNCHANGED <<delayRelease, unitVars, mig, closeVars, poolVars, dbVars,
                 ncalls>>
  /\ last' = NoCall

\* _pool.acquire() of the inner operation resolves with an idle connection
InnerDispense(t, c) ==
  /\ tasks[t].inner = "acquiring"
  /\ pool[c] = "idle"
  /\ pool' = [pool EXCEPT ![c] = "borrowed"]
  /\ acquired' = [acquired EXCEPT ![c] = @ + 1]
  /\ tasks' = [tasks EXCEPT ![t].inner = "acquired", ![t].innerConn = c]
  /\ UNCHANGED <<delayRelease, unitVars, mig, closeVars, immQ, released,
                 poolErr, dbVars, ncalls>>
  /\ last' = NoCall

\* fault: a pool without an acquire timeout
InnerTimeoutNever(t) ==
  /\ FALSE
  /\ UNCHANGED vars

\* _pool.acquire() of the inner operation rejects after acquireTimeoutMillis:
\* the error leaves _acquireRelease before its try block
InnerTimeout(t) ==
  /\ tasks[t].inner = "acquiring"
  /\ ~\E c \in Conns : pool[c] = "idle"
  /\ tasks' = [tasks EXCEPT ![t].inner = "timeout"]
  /\ UNCHANGED <<delayRelease, unitVars, mig, closeVars, poolVars, dbVars,
                 ncalls>>
  /\ last' = NoCall

\* the inner operation calls conn.run inside its try block
InnerDelegate(t) ==
  /\ tasks[t].inner = "acquired"
  /\ LET c == tasks[t].innerConn
         chk == CallCheck(c, "run", TRUE)
     IN IF chk = "ok"
        THEN /\ log' = Issue(log, c, "SQL")
             /\ tasks' = [tasks EXCEPT ![t].inner = "running"]
             /\ UNCHANGED poolVars
        ELSE /\ Release(c)
             /\ tasks' = [tasks EXCEPT ![t].inner = "rejected"]
             /\ log' = log
             /\ UNCHANGED acquired
  /\ UNCHANGED <<delayRelease, unitVars, mig, closeVars, driver, parent, trx,
                 trxs, nextTrx, ncalls>>
  /\ last' = NoCall

\* the driver call of the inner operation settles: the finally block of its
\* _acquireRelease, then its outcome
InnerSettle(t, ok) ==
  /\ tasks[t].inner = "running"
  /\ Release(tasks[t].innerConn)
  /\ tasks' = [tasks EXCEPT ![t].inner = IF ok THEN "resolved" ELSE "rejected"]
  /\ UNCHANGED <<delayRelease, unitVars, mig, closeVars, acquired, dbVars,
                 ncalls>>
  /\ last' = NoCall

\* a body that awaits the inner operation settles once that has settled
NestBodySettle(t, ok) ==
  /\ ~InnerPending(t)
  /\ BodySettle(t, ok)

\* a work that awaits the inner operation settles once that has settled
NestWorkDone(x, how) ==
  /\ ~\E t \in Tasks : tasks[t].await = x /\ InnerPending(t)
  /\ WorkDone(x, how)

\* a pool just constructed whose maximum is its minimum or one more, so that
\* few callers borrow all of its connections
InitNest ==
  /\ delayRelease \in BOOLEAN
  /\ pool = [c \in Conns |-> "none"]
  /\ immQ = <<>>
  /\ acquired = [c \in Conns |-> 0]
  /\ released = [c \in Conns |-> 0]
  /\ poolErr = FALSE
  /\ driver = [d \in Dbs |-> IF d \in Conns THEN d ELSE Null]
  /\ parent = [d \in Dbs |-> Null]
  /\ trx = [d \in Dbs |-> Null]
  /\ trxs = [x \in Proxies |-> NoTrx]
  /\ nextTrx = 0
  /\ log = [c \in Conns |-> <<>>]
  /\ tasks = [t \in Tasks |-> NoTask]
  /\ ncalls = 0
  /\ last = NoCall
  /\ draining = FALSE
  /\ closeSt = NoClose
  /\ closes = [c \in Conns |-> 0]
  /\ mig = NoMig
  /\ \E max \in {PoolMin, PoolMin + 1} :
       opts = PoolOpts("db.sqlite", PoolMin, max)
  /\ stream = NoStream
  /\ prep = NoPrep
  /\ runner = NoRunner
  /\ make = NoMake

\* the steps the runtime, the pool and the driver take on their own
NestProgress ==
  \/ \E c \in Conns : PoolCreate(c)
  \/ \E t \in Tasks, c \in Conns : PoolDispense(t, c)
  \/ \E t \in Tasks : DelegateUse(t)
  \/ \E t \in Tasks : DelegateTransaction(t, TRUE, FALSE)
  \/ \E x \in Proxies, b \in BOOLEAN : BeginDone(x, b)
  \/ \E t \in Tasks, c \in Conns : InnerDispense(t, c)
  \/ \E t \in Tasks : InnerTimeout(t)
  \/ \E t \in Tasks : InnerDelegate(t)
  \/ \E t \in Tasks, b \in BOOLEAN : InnerSettle(t, b)
  \/ \E t \in Tasks, b \in BOOLEAN : NestBodySettle(t, b)
  \/ \E x \in Proxies, h \in {"resolved", "rejected"} : NestWorkDone(x, h)
  \/ \E x \in Proxies, b \in BOOLEAN : CommitDone(x, b)
  \/ \E x \in Proxies, b \in BOOLEAN : RollbackDone(x, b)
  \/ \E t \in Tasks : SettleTransaction(t)
  \/ ImmediateRelease

NextNest ==
  \/ \E t \in Tasks, k \in {"use", "transaction"} : Call(t, k)
  \/ \E t \in Tasks : InnerCall(t)
  \/ NestProgress

SpecNest == InitNest /\ [][NextNest]_vars

\* the same with every step of runtime, pool and driver eventually taken
SpecNestFair == SpecNest /\ WF_vars(NestProgress)

InnerSettled(t) == tasks[t].inner \in {"resolved", "rejected", "timeout"}

\* every connection the pool may have is borrowed by a caller whose function
\* waits for the acquisition of a further pool-level operation
CircularWait ==
  /\ Cardinality(Borrowed) = opts.max
  /\ immQ = <<>>
  /\ \A c \in Borrowed :
       \E t \in Tasks :
         /\ tasks[t].conn = c
         /\ Working(t)
         /\ tasks[t].inner = "acquiring"

\* C36: the future of every pool-level operation eventually settles, also
\* when every connection is borrowed by a caller that waits for a further
\* pool-level operation: the inner acquisition then fails by timeout, and the
\* outer operation settles and its connection goes back to the pool.
C36_NestedOperationsSettle ==
  /\ \A t \in Tasks :
       /\ tasks[t].pc # "init" ~>
            (tasks[t].pc = "done" /\ pool[tasks[t].conn] = "idle")
       /\ tasks[t].inner = "acquiring" ~> InnerSettled(t)
  /\ CircularWait ~> \E t \in Tasks : tasks[t].inner = "timeout"

\* on a pool of one connection the work of a pool-level transaction called a
\* pool-level run, whose acquisition timed out; the transaction then ended
\* and its connection is idle again
C36_Witness ==
  /\ opts.max = 1
  /\ tasks[1].fn = "transaction"
  /\ tasks[1].inner = "timeout"
  /\ tasks[1].pc = "done"
  /\ pool[1] = "idle"

\* ---- the connections close() destroys and creates ----

C38_CloseCreatesNothing ==
  closeSt.pc # "none" /\ closeSt.queued = 0 =>
    Cardinality(Created) = closeSt.created

\* ---- the connection of migrate() ----

\* the acquisitions of the migrate() calls before this one
Prior == mig.run - 1

\* this migrate() holds connection 1: acquired and not handed to _release
MigHolds ==
  /\ pool[1] = "borrowed"
  /\ acquired[1] = Prior + 1
  /\ released[1] = Prior
  /\ immQ = <<>>

\* what holds of the pool at every moment of a migrate() call
MigOneConnection ==
  /\ \A c \in Conns \ {1} :
       acquired[c] = 0 /\ released[c] = 0 /\ log[c] = <<>> /\ pool[c] = "none"
  /\ acquired[1] \in {Prior, Prior + 1}
  /\ ~poolErr
  /\ mig.pc \in {"read", "parse", "acquire"} =>
       /\ acquired[1] = Prior
       /\ released[1] + Len(immQ) = Prior
       /\ Len(log[1]) = mig.mark
  /\ mig.pc \in {"body", "create", "select", "down", "downTrx", "up",
                 "upTrx"} => MigHolds
  /\ mig.pc = "done" =>
       /\ released[1] + Len(immQ) = acquired[1]
       /\ immQ = <<>> => pool[1] = "idle"

\* C40: migrate() sends all of its SQL to one connection, which it acquires
\* once and hands back once when it finishes or fails; it acquires no second
\* connection while it holds the first, and sends nothing after the release.
C40_MigrateHoldsOneConnection ==
  /\ [](mig.pc # "none" => MigOneConnection)
  /\ [][log' # log => MigHolds]_vars

\* a migrate() that created the table, reverted one migration and applied
\* one, each in a transaction of its own, acquired connection 1 once and has
\* released it once
C40_Witness ==
  /\ Succeeded
  /\ nextTrx = 2
  /\ Committed(PoolMax + 1) /\ Committed(PoolMax + 2)
  /\ Via(PoolMax + 1)[3].sql = "DELETE"
  /\ Via(PoolMax + 2)[3].sql = "INSERT"
  /\ acquired[1] = 1
  /\ released[1] = 1
  /\ pool[1] = "idle"
====
